---------------------------- MODULE Spec2Model ----------------------------
(***************************************************************************)
(* A state-machine model of the IconVG Rasterizer (package iconvg,        *)
(* src/unnamed/part_000): the register banks, the paint resolution of     *)
(* StartPath, the LOD gate, the smooth-control tracker and the path       *)
(* commands, driven by an arbitrary caller.                               *)
(*                                                                         *)
(* float32 values are modelled as exact rationals extended with +Inf,     *)
(* -Inf and NaN (IEEE 754 rules for the special values; rounding and the  *)
(* sign of zero are not modelled).  uint8 fields keep their width.        *)
(***************************************************************************)
EXTENDS Integers, Sequences, FiniteSets, TLC

(***************************************************************************)
(* float32: <<"fin", n, d>> is the rational n/d (d > 0, lowest terms),    *)
(* <<"inf", s, 0>> is s * infinity (s = 1 or -1), <<"nan", 0, 0>> is NaN. *)
(***************************************************************************)
Abs(n) == IF n < 0 THEN -n ELSE n

Sign(n) == IF n < 0 THEN -1 ELSE IF n > 0 THEN 1 ELSE 0

RECURSIVE GCD(_, _)
GCD(a, b) == IF b = 0 THEN a ELSE GCD(b, a % b)

Rat(n, d) ==
    LET g == GCD(Abs(n), Abs(d))
        s == Sign(d)
    IN  <<"fin", (s * n) \div g, (s * d) \div g>>

F(n) == <<"fin", n, 1>>

NaN == <<"nan", 0, 0>>

Inf(s) == <<"inf", s, 0>>

positiveInfinity == Inf(1)

negativeInfinity == Inf(-1)

IsNaN(a) == a[1] = "nan"

IsInf(a) == a[1] = "inf"

IsFin(a) == a[1] = "fin"

FSign(a) == IF IsInf(a) THEN a[2] ELSE Sign(a[2])

FNeg(a) ==
    IF IsNaN(a) THEN NaN
    ELSE IF IsInf(a) THEN Inf(-a[2])
    ELSE Rat(-a[2], a[3])

FAdd(a, b) ==
    IF IsNaN(a) \/ IsNaN(b) THEN NaN
    ELSE IF IsInf(a) /\ IsInf(b) THEN (IF a[2] = b[2] THEN a ELSE NaN)
    ELSE IF IsInf(a) THEN a
    ELSE IF IsInf(b) THEN b
    ELSE Rat(a[2] * b[3] + b[2] * a[3], a[3] * b[3])

FSub(a, b) == FAdd(a, FNeg(b))

FMul(a, b) ==
    IF IsNaN(a) \/ IsNaN(b) THEN NaN
    ELSE IF IsInf(a) \/ IsInf(b)
         THEN (IF FSign(a) * FSign(b) = 0 THEN NaN ELSE Inf(FSign(a) * FSign(b)))
    ELSE Rat(a[2] * b[2], a[3] * b[3])

FDiv(a, b) ==
    IF IsNaN(a) \/ IsNaN(b) THEN NaN
    ELSE IF IsInf(a) /\ IsInf(b) THEN NaN
    ELSE IF IsInf(a) THEN Inf(a[2] * (IF FSign(b) < 0 THEN -1 ELSE 1))
    ELSE IF IsInf(b) THEN F(0)
    ELSE IF b[2] = 0 THEN (IF a[2] = 0 THEN NaN ELSE Inf(Sign(a[2])))
    ELSE Rat(a[2] * b[3], a[3] * b[2])

\* a < b and a <= b of Go: false whenever an operand is NaN.
FLt(a, b) ==
    IF IsNaN(a) \/ IsNaN(b) THEN FALSE
    ELSE IF IsInf(a) THEN a[2] = -1 /\ b # a
    ELSE IF IsInf(b) THEN b[2] = 1
    ELSE a[2] * b[3] < b[2] * a[3]

FLe(a, b) ==
    IF IsNaN(a) \/ IsNaN(b) THEN FALSE
    ELSE a = b \/ FLt(a, b)

Vec2(x, y) == <<x, y>>

(***************************************************************************)
(* color.RGBA and the colours the callers of the model use.               *)
(***************************************************************************)
RGBA(r, g, b, a) == [R |-> r, G |-> g, B |-> b, A |-> a]

\* validAlphaPremulColor: every channel is at most alpha.
validAlphaPremulColor(c) == c.R <= c.A /\ c.G <= c.A /\ c.B <= c.A

\* The gradient-descriptor escape tested by StartPath: A == 0 and bit 7 of B.
IsGradientDescriptor(c) == c.A = 0 /\ (c.B \div 128) % 2 # 0

\* Color.Resolve: a direct RGBA, a palette index or a colour-register index.
Resolve(c, palette, creg) ==
    CASE c[1] = "rgba" -> c[2]
      [] c[1] = "pal"  -> palette[c[2] % 64]
      [] c[1] = "creg" -> creg[c[2] % 64]

Slots == 0..63

ZeroColor == RGBA(0, 0, 0, 0)

ZeroPalette == [i \in Slots |-> ZeroColor]

ZeroNReg == [i \in Slots |-> F(0)]


(***************************************************************************)
(* image.Rectangle and Metadata.                                           *)
(***************************************************************************)
Rect(x0, y0, x1, y1) == [Min |-> <<x0, y0>>, Max |-> <<x1, y1>>]

ZeroRect == Rect(0, 0, 0, 0)

Dx(rr) == rr.Max[1] - rr.Min[1]

Dy(rr) == rr.Max[2] - rr.Min[2]

\* image.Rectangle.Empty
Empty(rr) == rr.Min[1] >= rr.Max[1] \/ rr.Min[2] >= rr.Max[2]

ViewBox(x0, y0, x1, y1) == [Min |-> <<F(x0), F(y0)>>, Max |-> <<F(x1), F(y1)>>]

ZeroMetadata == [ViewBox |-> ViewBox(0, 0, 0, 0), Palette |-> ZeroPalette]

smoothTypeNone == 0

smoothTypeQuad == 1

smoothTypeCube == 2

(***************************************************************************)
(* The state: the fields of Rasterizer; zz is the embedded coverage       *)
(* rasterizer z.z.  The others are history variables: op is the last      *)
(* operation invoked with its arguments, calls the calls that operation   *)
(* made on the coverage rasterizer, in order, latchCount the number of    *)
(* times the compositing operator was latched since the last Reset,       *)
(* freshCycle whether no StartPath has been invoked since the last Reset, *)
(* and drawn the number of path commands that acted (on an enabled path) *)
(* since the last Reset.                                                   *)
(***************************************************************************)
\* ebnflint before verify has read its input: the position in verify,
\* whether the file name ends in .html, and the bytes of src.
LintStart == [pc |-> "start", html |-> FALSE, src |-> <<>>]

VARIABLES dst, r, drawOp, scaleX, biasX, scaleY, biasY, metadata,
          lod0, lod1, cSel, nSel, disabled, firstStartPath,
          prevSmoothType, prevSmoothPoint, fill, flatColor, gradient,
          cReg, nReg, stops, zz, calls, op, latchCount, freshCycle,
          drawn, lint

dstVars == <<dst, r, drawOp>>

xformVars == <<scaleX, biasX, scaleY, biasY>>

regVars == <<cSel, nSel, cReg, nReg>>

lodVars == <<lod0, lod1>>

smoothVars == <<prevSmoothType, prevSmoothPoint>>

paintVars == <<fill, flatColor, gradient, stops>>

histVars == <<latchCount, freshCycle, drawn>>

vars == <<dst, r, drawOp, scaleX, biasX, scaleY, biasY, metadata,
          lod0, lod1, cSel, nSel, disabled, firstStartPath,
          prevSmoothType, prevSmoothPoint, fill, flatColor, gradient,
          cReg, nReg, stops, zz, calls, op, latchCount, freshCycle,
          drawn, lint>>

(***************************************************************************)
(* The coverage rasterizer (golang.org/x/image/vector), seen through the  *)
(* calls the Rasterizer makes: its size, its pen, the first point of the  *)
(* current subpath and its compositing operator.  The operators below     *)
(* take and return the rasterizer together with the calls made so far     *)
(* by the running operation.                                               *)
(***************************************************************************)
ZeroVec2 == <<F(0), F(0)>>

ZZero == [size |-> <<0, 0>>, pen |-> ZeroVec2, first |-> ZeroVec2, DrawOp |-> "Over"]

ZBegin(v) ==
    [size |-> v.size, pen |-> v.pen, first |-> v.first, DrawOp |-> v.DrawOp,
     calls |-> <<>>]

ZState(t) ==
    [size |-> t.size, pen |-> t.pen, first |-> t.first, DrawOp |-> t.DrawOp]

\* Reset also sets DrawOp to draw.Over.
ZReset(t, w, h) ==
    [size |-> <<w, h>>, pen |-> ZeroVec2, first |-> ZeroVec2, DrawOp |-> "Over",
     calls |-> Append(t.calls, <<"Reset", w, h>>)]

ZMoveTo(t, a) ==
    [t EXCEPT !.first = a, !.pen = a, !.calls = Append(@, <<"MoveTo", a>>)]

ZLineTo(t, b) ==
    [t EXCEPT !.pen = b, !.calls = Append(@, <<"LineTo", b>>)]

ZQuadTo(t, b, c) ==
    [t EXCEPT !.pen = c, !.calls = Append(@, <<"QuadTo", b, c>>)]

ZCubeTo(t, b, c, d) ==
    [t EXCEPT !.pen = d, !.calls = Append(@, <<"CubeTo", b, c, d>>)]

\* ClosePath is a line to the first point of the subpath.
ZClosePath(t) ==
    [t EXCEPT !.pen = t.first, !.calls = Append(@, <<"ClosePath">>)]

ZSetDrawOp(t, o) ==
    [t EXCEPT !.DrawOp = o, !.calls = Append(@, <<"SetDrawOp", o>>)]

\* The paint a Draw call reads: flatImage.C points at z.flatColor, and the
\* gradient's stops are a slice of z.stops.
\* A paint read from the registers when it is drawn.
PaintFromRegisters(f, fc, g, st) ==
    IF f = "flatImage" THEN <<"flat", cReg[0]>>
    ELSE IF f = "gradient"
         THEN <<"gradient", g, [i \in 0..(g.NStops - 1) |->
                                  [Offset |-> nReg[i],
                                   RGBA64 |-> RGBA(cReg[2 + i].R * 257, cReg[2 + i].G * 257,
                                                   cReg[2 + i].B * 257, cReg[2 + i].A * 257)]]>>
    ELSE <<"nil">>

Paint(f, fc, g, st) ==
    IF f = "flatImage" THEN <<"flat", fc>>
    ELSE IF f = "gradient"
         THEN <<"gradient", g, [i \in 0..(g.NStops - 1) |-> st[i]]>>
    ELSE <<"nil">>

\* z.z.Draw(dst, r, fill, image.Point{})
ZDraw(t, rr, f, fc, g, st) ==
    [t EXCEPT !.calls = Append(@, <<"Draw", rr, t.DrawOp, Paint(f, fc, g, st)>>)]

(***************************************************************************)
(* Init: the zero value of Rasterizer.                                    *)
(***************************************************************************)
ZeroGradient ==
    [Shape |-> "none", Geom |-> <<>>, Spread |-> 0, NStops |-> 0]

ZeroStop == [Offset |-> F(0), RGBA64 |-> RGBA(0, 0, 0, 0)]

Init ==
    /\ dst = "nil"
    /\ r = ZeroRect
    /\ drawOp = "Over"
    /\ scaleX = F(0) /\ biasX = F(0) /\ scaleY = F(0) /\ biasY = F(0)
    /\ metadata = ZeroMetadata
    /\ lod0 = F(0) /\ lod1 = F(0)
    /\ cSel = 0 /\ nSel = 0
    /\ disabled = FALSE
    /\ firstStartPath = FALSE
    /\ prevSmoothType = smoothTypeNone
    /\ prevSmoothPoint = ZeroVec2
    /\ fill = "nil"
    /\ flatColor = ZeroColor
    /\ gradient = ZeroGradient
    /\ cReg = ZeroPalette
    /\ nReg = ZeroNReg
    /\ stops = [i \in Slots |-> ZeroStop]
    /\ zz = ZZero
    /\ calls = <<>>
    /\ op = <<"new">>
    /\ latchCount = 0
    /\ freshCycle = FALSE
    /\ drawn = 0
    /\ lint = LintStart

(***************************************************************************)
(* SetDstImage, Reset, recalcTransform.                                   *)
(***************************************************************************)
recalcTransform(rr, m) ==
    /\ scaleX' = FDiv(F(Dx(rr)), FSub(m.ViewBox.Max[1], m.ViewBox.Min[1]))
    /\ biasX' = FNeg(m.ViewBox.Min[1])
    /\ scaleY' = FDiv(F(Dy(rr)), FSub(m.ViewBox.Max[2], m.ViewBox.Min[2]))
    /\ biasY' = FNeg(m.ViewBox.Min[2])

SetDstImage(d, rr, o) ==
    /\ dst' = d
    /\ r' = IF Empty(rr) THEN ZeroRect ELSE rr
    /\ drawOp' = o
    /\ recalcTransform(r', metadata)
    /\ UNCHANGED lint
    /\ op' = <<"SetDstImage", d, rr, o>>
    /\ UNCHANGED <<metadata, lodVars, regVars, disabled, firstStartPath,
                   smoothVars, paintVars, zz, histVars>>
    /\ calls' = <<>>

\* A Reset that leaves the smooth kind as it was.
ResetKeepsSmoothType(m) ==
    /\ metadata' = m
    /\ lod0' = F(0)
    /\ lod1' = positiveInfinity
    /\ cSel' = 0
    /\ nSel' = 0
    /\ firstStartPath' = TRUE
    /\ prevSmoothPoint' = ZeroVec2
    /\ cReg' = m.Palette
    /\ nReg' = ZeroNReg
    /\ recalcTransform(r, m)
    /\ UNCHANGED lint
    /\ op' = <<"Reset", m>>
    /\ latchCount' = 0
    /\ freshCycle' = TRUE
    /\ drawn' = 0
    /\ calls' = <<>>
    /\ UNCHANGED <<dstVars, disabled, paintVars, zz, prevSmoothType>>

\* A Reset that leaves the first-path flag as it was.
ResetKeepsFirstStartPath(m) ==
    /\ metadata' = m
    /\ lod0' = F(0)
    /\ lod1' = positiveInfinity
    /\ cSel' = 0
    /\ nSel' = 0
    /\ prevSmoothType' = smoothTypeNone
    /\ prevSmoothPoint' = ZeroVec2
    /\ cReg' = m.Palette
    /\ nReg' = ZeroNReg
    /\ recalcTransform(r, m)
    /\ UNCHANGED lint
    /\ op' = <<"Reset", m>>
    /\ latchCount' = 0
    /\ freshCycle' = TRUE
    /\ drawn' = 0
    /\ calls' = <<>>
    /\ UNCHANGED <<dstVars, disabled, paintVars, zz, firstStartPath>>

Reset(m) ==
    /\ metadata' = m
    /\ lod0' = F(0)
    /\ lod1' = positiveInfinity
    /\ cSel' = 0
    /\ nSel' = 0
    /\ firstStartPath' = TRUE
    /\ prevSmoothType' = smoothTypeNone
    /\ prevSmoothPoint' = ZeroVec2
    /\ cReg' = m.Palette
    /\ nReg' = ZeroNReg
    /\ recalcTransform(r, m)
    /\ UNCHANGED lint
    /\ op' = <<"Reset", m>>
    /\ latchCount' = 0
    /\ freshCycle' = TRUE
    /\ calls' = <<>>
    /\ drawn' = 0
    /\ UNCHANGED <<dstVars, disabled, paintVars, zz>>

(***************************************************************************)
(* The register banks.  cSel and nSel are uint8.                          *)
(***************************************************************************)
\* v & 0x3f
Mask6(v) == v % 64

\* A slot computed with the adjustment added.
RegSlotSum(sel, adj) == Mask6((sel + adj) % 256)

\* (sel - adj) & 0x3f, the subtraction in uint8
RegSlot(sel, adj) == Mask6((sel - adj) % 256)

\* An increment that wraps at 64.
IncSel6(sel) == (sel + 1) % 64

\* sel++ in uint8
IncSel(sel) == (sel + 1) % 256

SetCSel(v) ==
    /\ cSel' = Mask6(v)
    /\ UNCHANGED lint
    /\ op' = <<"SetCSel", v>>
    /\ UNCHANGED <<dstVars, xformVars, metadata, lodVars, nSel, cReg, nReg,
                   disabled, firstStartPath, smoothVars, paintVars, zz,
                   histVars>>
    /\ calls' = <<>>

SetNSel(v) ==
    /\ nSel' = Mask6(v)
    /\ UNCHANGED lint
    /\ op' = <<"SetNSel", v>>
    /\ UNCHANGED <<dstVars, xformVars, metadata, lodVars, cSel, cReg, nReg,
                   disabled, firstStartPath, smoothVars, paintVars, zz,
                   histVars>>
    /\ calls' = <<>>

SetCReg(adj, incr, c) ==
    /\ cReg' = [cReg EXCEPT ![RegSlot(cSel, adj)] =
                                Resolve(c, metadata.Palette, cReg)]
    /\ cSel' = IF incr THEN IncSel(cSel) ELSE cSel
    /\ UNCHANGED lint
    /\ op' = <<"SetCReg", adj, incr, c>>
    /\ UNCHANGED <<dstVars, xformVars, metadata, lodVars, nSel, nReg,
                   disabled, firstStartPath, smoothVars, paintVars, zz,
                   histVars>>
    /\ calls' = <<>>

SetNReg(adj, incr, f) ==
    /\ nReg' = [nReg EXCEPT ![RegSlot(nSel, adj)] = f]
    /\ nSel' = IF incr THEN IncSel(nSel) ELSE nSel
    /\ UNCHANGED lint
    /\ op' = <<"SetNReg", adj, incr, f>>
    /\ UNCHANGED <<dstVars, xformVars, metadata, lodVars, cSel, cReg,
                   disabled, firstStartPath, smoothVars, paintVars, zz,
                   histVars>>
    /\ calls' = <<>>

\* A SetLOD that returns early on a disabled path.
SetLODGuarded(l0, l1) ==
    /\ lod0' = IF disabled THEN lod0 ELSE l0
    /\ lod1' = IF disabled THEN lod1 ELSE l1
    /\ UNCHANGED lint
    /\ op' = <<"SetLOD", l0, l1>>
    /\ UNCHANGED <<dstVars, xformVars, metadata, regVars, disabled,
                   firstStartPath, smoothVars, paintVars, zz, histVars>>
    /\ calls' = <<>>

SetLOD(l0, l1) ==
    /\ lod0' = l0
    /\ lod1' = l1
    /\ UNCHANGED lint
    /\ op' = <<"SetLOD", l0, l1>>
    /\ UNCHANGED <<dstVars, xformVars, metadata, regVars, disabled,
                   firstStartPath, smoothVars, paintVars, zz, histVars>>
    /\ calls' = <<>>

(***************************************************************************)
(* The coordinate transform.                                               *)
(***************************************************************************)
unabsX(x) == FSub(FDiv(x, scaleX), biasX)

unabsY(y) == FSub(FDiv(y, scaleY), biasY)

absX(x) == FMul(scaleX, FAdd(x, biasX))

absY(y) == FMul(scaleY, FAdd(y, biasY))

relX(x) == FMul(scaleX, x)

relY(y) == FMul(scaleY, y)

absVec2(x, y) == <<absX(x), absY(y)>>

relVec2(pen, x, y) == <<FAdd(pen[1], relX(x)), FAdd(pen[2], relY(y))>>

(***************************************************************************)
(* initGradient: the stops are written into z.stops one by one, and a     *)
(* failing stop returns at once (the stops before it stay written).       *)
(***************************************************************************)
Stop(n, c) ==
    [Offset |-> n,
     RGBA64 |-> RGBA(c.R * 257, c.G * 257, c.B * 257, c.A * 257)]

\* A loop over the stops that accepts an offset equal to the previous one.
RECURSIVE initGradientLoopNonStrict(_, _, _, _, _, _)
initGradientLoopNonStrict(i, nStops, cBase, nBase, prevN, st) ==
    IF i >= nStops THEN [ok |-> TRUE, stops |-> st]
    ELSE LET c == cReg[Mask6(cBase + i)]
             n == nReg[Mask6(nBase + i)]
         IN  IF ~validAlphaPremulColor(c) THEN [ok |-> FALSE, stops |-> st]
             ELSE IF ~(FLe(F(0), n) /\ FLe(n, F(1))) \/ ~FLe(prevN, n)
                  THEN [ok |-> FALSE, stops |-> st]
             ELSE initGradientLoopNonStrict(i + 1, nStops, cBase, nBase, n,
                                            [st EXCEPT ![i] = Stop(n, c)])

RECURSIVE initGradientLoop(_, _, _, _, _, _)
initGradientLoop(i, nStops, cBase, nBase, prevN, st) ==
    IF i >= nStops THEN [ok |-> TRUE, stops |-> st]
    ELSE LET c == cReg[Mask6(cBase + i)]
             n == nReg[Mask6(nBase + i)]
         IN  IF ~validAlphaPremulColor(c) THEN [ok |-> FALSE, stops |-> st]
             ELSE IF ~(FLe(F(0), n) /\ FLe(n, F(1))) \/ ~FLt(prevN, n)
                  THEN [ok |-> FALSE, stops |-> st]
             ELSE initGradientLoop(i + 1, nStops, cBase, nBase, n,
                                   [st EXCEPT ![i] = Stop(n, c)])

\* A gradient whose geometry slots stop at slot 0 instead of wrapping.
initGradientNoWrap(rgba) ==
    LET nStops == Mask6(rgba.R)
        cBase == Mask6(rgba.G)
        nBase == Mask6(rgba.B)
        loop == initGradientLoop(0, nStops, cBase, nBase, negativeInfinity, stops)
        spread == rgba.G \div 64
        below(k) == IF nBase < k THEN 0 ELSE nBase - k
        g == IF (rgba.B \div 64) % 2 = 0
             THEN [Shape |-> "linear",
                   Geom |-> <<absX(nReg[below(4)]),
                              absY(nReg[below(3)]),
                              absX(nReg[below(2)]),
                              absY(nReg[below(1)])>>,
                   Spread |-> spread, NStops |-> nStops]
             ELSE [Shape |-> "circular",
                   Geom |-> <<absX(nReg[below(4)]),
                              absY(nReg[below(3)]),
                              relX(nReg[below(1)])>>,
                   Spread |-> spread, NStops |-> nStops]
    IN  [ok |-> loop.ok, stops |-> loop.stops,
         gradient |-> IF loop.ok THEN g ELSE gradient]

initGradient(rgba) ==
    LET nStops == Mask6(rgba.R)
        cBase == Mask6(rgba.G)
        nBase == Mask6(rgba.B)
        loop == initGradientLoop(0, nStops, cBase, nBase, negativeInfinity, stops)
        spread == rgba.G \div 64
        g == IF (rgba.B \div 64) % 2 = 0
             THEN [Shape |-> "linear",
                   Geom |-> <<absX(nReg[Mask6(nBase - 4)]),
                              absY(nReg[Mask6(nBase - 3)]),
                              absX(nReg[Mask6(nBase - 2)]),
                              absY(nReg[Mask6(nBase - 1)])>>,
                   Spread |-> spread, NStops |-> nStops]
             ELSE [Shape |-> "circular",
                   Geom |-> <<absX(nReg[Mask6(nBase - 4)]),
                              absY(nReg[Mask6(nBase - 3)]),
                              relX(nReg[Mask6(nBase - 1)])>>,
                   Spread |-> spread, NStops |-> nStops]
    IN  [ok |-> loop.ok, stops |-> loop.stops,
         gradient |-> IF loop.ok THEN g ELSE gradient]

(***************************************************************************)
(* StartPath and ClosePathEndPath.                                         *)
(***************************************************************************)
\* The paint of StartPath (lines 219-226): the fill and the disabled flag it
\* leaves before the LOD gate.  A colour that is neither valid nor a gradient
\* descriptor takes neither branch: fill and disabled keep their values.
PaintOf(c) ==
    IF validAlphaPremulColor(c)
    THEN [fill |-> "flatImage", disabled |-> (c.A = 0),
          stops |-> stops, gradient |-> gradient]
    ELSE IF IsGradientDescriptor(c)
    THEN LET g == initGradient(c)
         IN  [fill |-> "gradient", disabled |-> ~g.ok,
              stops |-> g.stops, gradient |-> g.gradient]
    ELSE [fill |-> fill, disabled |-> disabled,
          stops |-> stops, gradient |-> gradient]

\* A gate whose upper bound is inclusive.
LodSkipClosed(h) == ~(FLe(lod0, h) /\ FLe(h, lod1))

\* The LOD gate of StartPath (line 230): !(z.lod0 <= h && h < z.lod1)
LodSkip(h) == ~(FLe(lod0, h) /\ FLt(h, lod1))

\* The number of times a sequence of calls sets the compositing operator.
Latches(cs) == Cardinality({i \in DOMAIN cs : cs[i][1] = "SetDrawOp"})

\* A latch that does not look at z.firstStartPath.
LatchEveryPath(v) == ZSetDrawOp(v, drawOp)

\* The latch of StartPath (lines 236-239), reached only by an enabled path.
LatchDrawOp(v) == IF firstStartPath THEN ZSetDrawOp(v, drawOp) ELSE v

StartPath(adj, x, y) ==
    LET c == cReg[RegSlot(cSel, adj)]
        p == PaintOf(c)
        width == Dx(r)
        height == Dy(r)
        dis == p.disabled \/ LodSkip(F(height))
    IN  /\ flatColor' = c
        /\ fill' = p.fill
        /\ stops' = p.stops
        /\ gradient' = p.gradient
        /\ disabled' = dis
        /\ IF dis
           THEN /\ calls' = <<>>
                /\ UNCHANGED <<zz, firstStartPath, smoothVars, latchCount>>
           ELSE /\ LET t == ZMoveTo(LatchDrawOp(ZReset(ZBegin(zz), width, height)),
                                    absVec2(x, y))
                   IN  zz' = ZState(t) /\ calls' = t.calls
                /\ firstStartPath' = FALSE
                /\ latchCount' = latchCount + Latches(calls')
                /\ prevSmoothType' = smoothTypeNone
                /\ UNCHANGED prevSmoothPoint
        /\ freshCycle' = FALSE
        /\ UNCHANGED lint
        /\ op' = <<"StartPath", adj, x, y>>
        /\ UNCHANGED <<dstVars, xformVars, metadata, lodVars, regVars, drawn>>

\* A ClosePathEndPath that draws whether or not a destination is bound.
ClosePathEndPathUnbound ==
    /\ IF disabled
       THEN calls' = <<>> /\ UNCHANGED zz
       ELSE LET t == ZDraw(ZClosePath(ZBegin(zz)), r, fill, flatColor,
                           gradient, stops)
            IN  zz' = ZState(t) /\ calls' = t.calls
    /\ UNCHANGED lint
    /\ op' = <<"ClosePathEndPath">>
    /\ drawn' = IF disabled THEN drawn ELSE drawn + 1
    /\ UNCHANGED <<dstVars, xformVars, metadata, lodVars, regVars, disabled,
                   firstStartPath, smoothVars, paintVars, latchCount,
                   freshCycle>>

ClosePathEndPath ==
    /\ IF disabled
       THEN calls' = <<>> /\ UNCHANGED zz
       ELSE LET c == ZClosePath(ZBegin(zz))
                t == IF dst = "nil" THEN c
                     ELSE ZDraw(c, r, fill, flatColor, gradient, stops)
            IN  zz' = ZState(t) /\ calls' = t.calls
    /\ UNCHANGED lint
    /\ op' = <<"ClosePathEndPath">>
    /\ drawn' = IF disabled THEN drawn ELSE drawn + 1
    /\ UNCHANGED <<dstVars, xformVars, metadata, lodVars, regVars, disabled,
                   firstStartPath, smoothVars, paintVars, latchCount,
                   freshCycle>>

(***************************************************************************)
(* The path commands.  Each returns at once when the path is disabled;    *)
(* otherwise it sets the smooth tracker and calls the coverage            *)
(* rasterizer.                                                             *)
(***************************************************************************)
\* A path command without the guard on z.disabled.
PathStepUnguarded(desc, st, sp, t) ==
    /\ prevSmoothType' = st
    /\ prevSmoothPoint' = sp
    /\ \E after \in {t} : zz' = ZState(after) /\ calls' = after.calls
    /\ UNCHANGED lint
    /\ op' = desc
    /\ drawn' = drawn
    /\ UNCHANGED <<dstVars, xformVars, metadata, lodVars, regVars, disabled,
                   firstStartPath, paintVars, latchCount, freshCycle>>

\* A path command that leaves the smooth tracker as it was.
PathStepKeepsTracker(desc, st, sp, t) ==
    /\ IF disabled
       THEN calls' = <<>> /\ UNCHANGED zz
       ELSE \E after \in {t} : zz' = ZState(after) /\ calls' = after.calls
    /\ UNCHANGED lint
    /\ op' = desc
    /\ drawn' = IF disabled THEN drawn ELSE drawn + 1
    /\ UNCHANGED <<dstVars, xformVars, metadata, lodVars, regVars, disabled,
                   firstStartPath, smoothVars, paintVars, latchCount,
                   freshCycle>>

PathStep(desc, st, sp, t) ==
    /\ IF disabled
       THEN calls' = <<>> /\ UNCHANGED <<smoothVars, zz>>
       ELSE /\ prevSmoothType' = st
            /\ prevSmoothPoint' = sp
            /\ \E after \in {t} : zz' = ZState(after) /\ calls' = after.calls
    /\ UNCHANGED lint
    /\ op' = desc
    /\ drawn' = IF disabled THEN drawn ELSE drawn + 1
    /\ UNCHANGED <<dstVars, xformVars, metadata, lodVars, regVars, disabled,
                   firstStartPath, paintVars, latchCount, freshCycle>>

\* An implicit control point that is always the pen.
implicitSmoothPointPen(prevType, thisSmoothType, pen, prevPoint) == pen

implicitSmoothPoint(prevType, thisSmoothType, pen, prevPoint) ==
    IF prevType # thisSmoothType THEN pen
    ELSE <<FSub(FMul(F(2), pen[1]), prevPoint[1]),
           FSub(FMul(F(2), pen[2]), prevPoint[2])>>

ClosePathAbsMoveTo(x, y) ==
    PathStep(<<"ClosePathAbsMoveTo", x, y>>, smoothTypeNone, prevSmoothPoint,
             ZMoveTo(ZClosePath(ZBegin(zz)), absVec2(x, y)))

ClosePathRelMoveTo(x, y) ==
    PathStep(<<"ClosePathRelMoveTo", x, y>>, smoothTypeNone, prevSmoothPoint,
             ZMoveTo(ZClosePath(ZBegin(zz)),
                     relVec2(ZClosePath(ZBegin(zz)).pen, x, y)))

AbsHLineTo(x) ==
    PathStep(<<"AbsHLineTo", x>>, smoothTypeNone, prevSmoothPoint,
             ZLineTo(ZBegin(zz), <<absX(x), zz.pen[2]>>))

RelHLineTo(x) ==
    PathStep(<<"RelHLineTo", x>>, smoothTypeNone, prevSmoothPoint,
             ZLineTo(ZBegin(zz), <<FAdd(zz.pen[1], relX(x)), zz.pen[2]>>))

AbsVLineTo(y) ==
    PathStep(<<"AbsVLineTo", y>>, smoothTypeNone, prevSmoothPoint,
             ZLineTo(ZBegin(zz), <<zz.pen[1], absY(y)>>))

RelVLineTo(y) ==
    PathStep(<<"RelVLineTo", y>>, smoothTypeNone, prevSmoothPoint,
             ZLineTo(ZBegin(zz), <<zz.pen[1], FAdd(zz.pen[2], relY(y))>>))

AbsLineTo(x, y) ==
    PathStep(<<"AbsLineTo", x, y>>, smoothTypeNone, prevSmoothPoint,
             ZLineTo(ZBegin(zz), absVec2(x, y)))

RelLineTo(x, y) ==
    PathStep(<<"RelLineTo", x, y>>, smoothTypeNone, prevSmoothPoint,
             ZLineTo(ZBegin(zz), relVec2(zz.pen, x, y)))

\* z.prevSmoothType is set to smoothTypeQuad (line 329) before
\* implicitSmoothPoint reads it (line 330).
AbsSmoothQuadTo(x, y) ==
    LET p == implicitSmoothPoint(smoothTypeQuad, smoothTypeQuad, zz.pen,
                                 prevSmoothPoint)
    IN  PathStep(<<"AbsSmoothQuadTo", x, y>>, smoothTypeQuad, p,
                 ZQuadTo(ZBegin(zz), p, absVec2(x, y)))

\* As AbsSmoothQuadTo (lines 338-339).
RelSmoothQuadTo(x, y) ==
    LET p == implicitSmoothPoint(smoothTypeQuad, smoothTypeQuad, zz.pen,
                                 prevSmoothPoint)
    IN  PathStep(<<"RelSmoothQuadTo", x, y>>, smoothTypeQuad, p,
                 ZQuadTo(ZBegin(zz), p, relVec2(zz.pen, x, y)))

AbsQuadTo(x1, y1, x, y) ==
    PathStep(<<"AbsQuadTo", x1, y1, x, y>>, smoothTypeQuad, absVec2(x1, y1),
             ZQuadTo(ZBegin(zz), absVec2(x1, y1), absVec2(x, y)))

RelQuadTo(x1, y1, x, y) ==
    PathStep(<<"RelQuadTo", x1, y1, x, y>>, smoothTypeQuad,
             relVec2(zz.pen, x1, y1),
             ZQuadTo(ZBegin(zz), relVec2(zz.pen, x1, y1), relVec2(zz.pen, x, y)))

\* implicitSmoothPoint reads z.prevSmoothType (line 365) before it is set
\* to smoothTypeCube (line 366).
AbsSmoothCubeTo(x2, y2, x, y) ==
    LET p1 == implicitSmoothPoint(prevSmoothType, smoothTypeCube, zz.pen,
                                  prevSmoothPoint)
    IN  PathStep(<<"AbsSmoothCubeTo", x2, y2, x, y>>, smoothTypeCube,
                 absVec2(x2, y2),
                 ZCubeTo(ZBegin(zz), p1, absVec2(x2, y2), absVec2(x, y)))

RelSmoothCubeTo(x2, y2, x, y) ==
    LET p1 == implicitSmoothPoint(prevSmoothType, smoothTypeCube, zz.pen,
                                  prevSmoothPoint)
    IN  PathStep(<<"RelSmoothCubeTo", x2, y2, x, y>>, smoothTypeCube,
                 relVec2(zz.pen, x2, y2),
                 ZCubeTo(ZBegin(zz), p1, relVec2(zz.pen, x2, y2), relVec2(zz.pen, x, y)))

AbsCubeTo(x1, y1, x2, y2, x, y) ==
    PathStep(<<"AbsCubeTo", x1, y1, x2, y2, x, y>>, smoothTypeCube,
             absVec2(x2, y2),
             ZCubeTo(ZBegin(zz), absVec2(x1, y1), absVec2(x2, y2), absVec2(x, y)))

RelCubeTo(x1, y1, x2, y2, x, y) ==
    PathStep(<<"RelCubeTo", x1, y1, x2, y2, x, y>>, smoothTypeCube,
             relVec2(zz.pen, x2, y2),
             ZCubeTo(ZBegin(zz), relVec2(zz.pen, x1, y1), relVec2(zz.pen, x2, y2),
                     relVec2(zz.pen, x, y)))

(***************************************************************************)
(* AbsArcTo, arcSegmentTo, RelArcTo, angle.                                *)
(*                                                                         *)
(* Angles are rationals in units of pi.  math.Sqrt, math.Cos, math.Sin    *)
(* and math.Acos are exact on the arguments the model's callers produce   *)
(* (squares of rationals; multiples of pi/2; -1, 0, 1) and each has a     *)
(* predicate saying so; the callers invoke an arc only where ArcExact     *)
(* holds.  On +Inf, -Inf and NaN they are as in Go.                       *)
(***************************************************************************)
\* The integer square root, by bisection of lo..hi.
RECURSIVE SqrtFloor(_, _, _)
SqrtFloor(n, lo, hi) ==
    IF lo >= hi THEN lo
    ELSE LET mid == (lo + hi + 1) \div 2
         IN  IF mid * mid <= n THEN SqrtFloor(n, mid, hi)
             ELSE SqrtFloor(n, lo, mid - 1)

ISqrt(n) == SqrtFloor(n, 0, IF n < 46340 THEN n ELSE 46340)

IsSquare(n) == ISqrt(n) * ISqrt(n) = n

SqrtOk(a) == IsFin(a) => (a[2] < 0 \/ (IsSquare(a[2]) /\ IsSquare(a[3])))

FSqrt(a) ==
    IF IsNaN(a) THEN NaN
    ELSE IF IsInf(a) THEN (IF a[2] = 1 THEN a ELSE NaN)
    ELSE IF a[2] < 0 THEN NaN
    ELSE IF IsSquare(a[2]) /\ IsSquare(a[3]) THEN Rat(ISqrt(a[2]), ISqrt(a[3]))
    ELSE NaN

FAbs(a) == IF FSign(a) < 0 THEN FNeg(a) ELSE a

\* t (in units of pi) is a multiple of pi/2
TrigOk(t) == IsFin(t) => (2 * t[2]) % t[3] = 0

Quadrant(t) == ((2 * t[2]) \div t[3]) % 4

CosPi(t) ==
    IF ~IsFin(t) \/ ~TrigOk(t) THEN NaN
    ELSE F(CASE Quadrant(t) = 0 -> 1 [] Quadrant(t) = 2 -> -1 [] OTHER -> 0)

SinPi(t) ==
    IF ~IsFin(t) \/ ~TrigOk(t) THEN NaN
    ELSE F(CASE Quadrant(t) = 1 -> 1 [] Quadrant(t) = 3 -> -1 [] OTHER -> 0)

AcosOk(c) == IsFin(c) => c \in {F(-1), F(0), F(1)}

\* math.Acos for -1 < c < 1, in units of pi
AcosPi(c) == IF c = F(0) THEN Rat(1, 2) ELSE NaN

angleOk(ux, uy, vx, vy) ==
    LET u2 == FAdd(FMul(ux, ux), FMul(uy, uy))
        v2 == FAdd(FMul(vx, vx), FMul(vy, vy))
        norm == FMul(FSqrt(u2), FSqrt(v2))
        cos == FDiv(FAdd(FMul(ux, vx), FMul(uy, vy)), norm)
    IN  SqrtOk(u2) /\ SqrtOk(v2)
        /\ (FLe(cos, F(-1)) \/ FLe(F(1), cos) \/ AcosOk(cos))

angle(ux, uy, vx, vy) ==
    LET uNorm == FSqrt(FAdd(FMul(ux, ux), FMul(uy, uy)))
        vNorm == FSqrt(FAdd(FMul(vx, vx), FMul(vy, vy)))
        norm == FMul(uNorm, vNorm)
        cos == FDiv(FAdd(FMul(ux, vx), FMul(uy, vy)), norm)
        ret == IF FLe(cos, F(-1)) THEN F(1)
               ELSE IF FLe(F(1), cos) THEN F(0)
               ELSE AcosPi(cos)
    IN  IF FLt(FMul(ux, vy), FMul(uy, vx)) THEN FNeg(ret) ELSE ret

\* pi / (pi/2 + 0.001), to six digits
PiOverQuarterFudge == Rat(314159, 157180)

\* int(math.Ceil(math.Abs(deltaTheta) / (math.Pi/2 + 0.001))); the int of a
\* NaN is negative or zero, and the loop over it runs no iteration.
arcSegments(deltaTheta) ==
    IF ~IsFin(deltaTheta) THEN 0
    ELSE LET q == FMul(FAbs(deltaTheta), PiOverQuarterFudge)
         IN  (q[2] + q[3] - 1) \div q[3]

\* (8 * q * q) / (3 * sin(halfDeltaTheta)) for a segment of a quarter turn:
\* (4/3) * tan(pi/8), to five digits
QuarterT == Rat(55228, 100000)

SegmentOk(span) == IsFin(span) => span \in {Rat(1, 2), Rat(-1, 2)}

SegmentT(span) ==
    IF span = Rat(1, 2) THEN QuarterT
    ELSE IF span = Rat(-1, 2) THEN FNeg(QuarterT)
    ELSE NaN

\* The three points arcSegmentTo hands to CubeTo.
arcSegmentTo(cx, cy, theta1, theta2, rx, ry, cosPhi, sinPhi) ==
    LET t == SegmentT(FSub(theta2, theta1))
        cos1 == CosPi(theta1)
        sin1 == SinPi(theta1)
        cos2 == CosPi(theta2)
        sin2 == SinPi(theta2)
        x1 == FMul(rx, FSub(cos1, FMul(t, sin1)))
        y1 == FMul(ry, FAdd(sin1, FMul(t, cos1)))
        x2 == FMul(rx, FAdd(cos2, FMul(t, sin2)))
        y2 == FMul(ry, FSub(sin2, FMul(t, cos2)))
        x3 == FMul(rx, cos2)
        y3 == FMul(ry, sin2)
        px(x, y) == absX(FAdd(cx, FSub(FMul(cosPhi, x), FMul(sinPhi, y))))
        py(x, y) == absY(FAdd(cy, FAdd(FMul(sinPhi, x), FMul(cosPhi, y))))
    IN  <<<<px(x1, y1), py(x1, y1)>>, <<px(x2, y2), py(x2, y2)>>,
          <<px(x3, y3), py(x3, y3)>>>>

\* The endpoint-to-centre conversion of AbsArcTo (lines 435-504), a chain
\* of its steps; each hands its results to the next.  ok collects whether
\* the model's arithmetic was exact so far.
\*
\* Step 4, second half (lines 489-504): the sweep adjustment and the number
\* of segments.
arcSweep(cx, cy, theta1, dt0, Rx, Ry, cosPhi, sinPhi, sweep, ok) ==
    LET deltaTheta == IF sweep
                      THEN (IF FLt(dt0, F(0)) THEN FAdd(dt0, F(2)) ELSE dt0)
                      ELSE (IF FLt(F(0), dt0) THEN FSub(dt0, F(2)) ELSE dt0)
        n == arcSegments(deltaTheta)
    IN  [cx |-> cx, cy |-> cy, theta1 |-> theta1, deltaTheta |-> deltaTheta,
         Rx |-> Rx, Ry |-> Ry, cosPhi |-> cosPhi, sinPhi |-> sinPhi, n |-> n,
         exact |-> /\ ok
                   /\ TrigOk(theta1)
                   /\ (n > 0 => SegmentOk(FDiv(deltaTheta, F(n))))]

\* Step 4, first half (lines 483-488): theta1 and deltaTheta.
arcTheta(cx, cy, ax, ay, bx, by, Rx, Ry, cosPhi, sinPhi, sweep, ok) ==
    arcSweep(cx, cy, angle(F(1), F(0), ax, ay), angle(ax, ay, bx, by),
             Rx, Ry, cosPhi, sinPhi, sweep,
             ok /\ angleOk(F(1), F(0), ax, ay) /\ angleOk(ax, ay, bx, by))

\* Step 3 (lines 475-480): (cx', cy') and (cx, cy).
arcCxy(x1, y1, x2, y2, x1Prime, y1Prime, Rx, Ry, cosPhi, sinPhi, step2, sweep, ok) ==
    LET cxPrime == FDiv(FMul(FMul(step2, Rx), y1Prime), Ry)
        cyPrime == FDiv(FMul(FMul(FNeg(step2), Ry), x1Prime), Rx)
    IN  arcTheta(FAdd(FSub(FMul(cosPhi, cxPrime), FMul(sinPhi, cyPrime)),
                      FDiv(FAdd(x1, x2), F(2))),
                 FAdd(FAdd(FMul(sinPhi, cxPrime), FMul(cosPhi, cyPrime)),
                      FDiv(FAdd(y1, y2), F(2))),
                 FDiv(FSub(x1Prime, cxPrime), Rx),
                 FDiv(FSub(y1Prime, cyPrime), Ry),
                 FDiv(FSub(FNeg(x1Prime), cxPrime), Rx),
                 FDiv(FSub(FNeg(y1Prime), cyPrime), Ry),
                 Rx, Ry, cosPhi, sinPhi, sweep, ok)

\* Step 2, second half (lines 467-474): step2 and its sign.
arcStep2(x1, y1, x2, y2, x1Prime, y1Prime, Rx, Ry, cosPhi, sinPhi, largeArc, sweep, ok) ==
    LET rxSq == FMul(Rx, Rx)
        rySq == FMul(Ry, Ry)
        denom == FAdd(FMul(rxSq, FMul(y1Prime, y1Prime)),
                      FMul(rySq, FMul(x1Prime, x1Prime)))
        a == FSub(FDiv(FMul(rxSq, rySq), denom), F(1))
        step2 == IF FLt(F(0), a) THEN FSqrt(a) ELSE F(0)
    IN  arcCxy(x1, y1, x2, y2, x1Prime, y1Prime, Rx, Ry, cosPhi, sinPhi,
               IF largeArc = sweep THEN FNeg(step2) ELSE step2, sweep,
               ok /\ (FLt(F(0), a) => SqrtOk(a)))

\* Step 2, first half (lines 452-465): the radii, grown when too small.
arcRadii(x1, y1, x2, y2, x1Prime, y1Prime, Rx0, Ry0, cosPhi, sinPhi, largeArc, sweep, ok) ==
    LET radiiCheck == FAdd(FDiv(FMul(x1Prime, x1Prime), FMul(Rx0, Rx0)),
                           FDiv(FMul(y1Prime, y1Prime), FMul(Ry0, Ry0)))
        grow == FLt(F(1), radiiCheck)
    IN  arcStep2(x1, y1, x2, y2, x1Prime, y1Prime,
                 IF grow THEN FMul(Rx0, FSqrt(radiiCheck)) ELSE Rx0,
                 IF grow THEN FMul(Ry0, FSqrt(radiiCheck)) ELSE Ry0,
                 cosPhi, sinPhi, largeArc, sweep,
                 ok /\ (grow => SqrtOk(radiiCheck)))

\* Step 1 (lines 444-449): (x1', y1').
arcPrime(x1, y1, x2, y2, Rx0, Ry0, cosPhi, sinPhi, largeArc, sweep, ok) ==
    LET halfDx == FDiv(FSub(x1, x2), F(2))
        halfDy == FDiv(FSub(y1, y2), F(2))
    IN  arcRadii(x1, y1, x2, y2,
                 FAdd(FMul(cosPhi, halfDx), FMul(sinPhi, halfDy)),
                 FAdd(FMul(FNeg(sinPhi), halfDx), FMul(cosPhi, halfDy)),
                 Rx0, Ry0, cosPhi, sinPhi, largeArc, sweep, ok)

\* Lines 435-441, from pen position pen, for radii Rx0 = |rx| > 0 and
\* Ry0 = |ry| > 0.
arcCentre(pen, Rx0, Ry0, xAxisRotation, largeArc, sweep, x, y) ==
    arcPrime(unabsX(pen[1]), unabsY(pen[2]), x, y, Rx0, Ry0,
             CosPi(FMul(F(2), xAxisRotation)), SinPi(FMul(F(2), xAxisRotation)),
             largeArc, sweep, TrigOk(FMul(F(2), xAxisRotation)))

\* A loop that stops one segment short.
arcCubicsOneShort(c) ==
    [i \in 1..(c.n - 1) |->
        arcSegmentTo(c.cx, c.cy,
                     FAdd(c.theta1, FDiv(FMul(c.deltaTheta, F(i - 1)), F(c.n))),
                     FAdd(c.theta1, FDiv(FMul(c.deltaTheta, F(i)), F(c.n))),
                     c.Rx, c.Ry, c.cosPhi, c.sinPhi)]

\* The cubics of the loop of AbsArcTo (lines 505-511), in order.
arcCubics(c) ==
    [i \in 1..c.n |->
        arcSegmentTo(c.cx, c.cy,
                     FAdd(c.theta1, FDiv(FMul(c.deltaTheta, F(i - 1)), F(c.n))),
                     FAdd(c.theta1, FDiv(FMul(c.deltaTheta, F(i)), F(c.n))),
                     c.Rx, c.Ry, c.cosPhi, c.sinPhi)]

RECURSIVE ZCubes(_, _)
ZCubes(v, cubics) ==
    IF cubics = <<>> THEN v
    ELSE ZCubes(ZCubeTo(v, cubics[1][1], cubics[1][2], cubics[1][3]),
                Tail(cubics))

\* !(Rx > 0 && Ry > 0) for Rx = |rx|, Ry = |ry|
arcDegenerate(rx, ry) == ~(FLt(F(0), FAbs(rx)) /\ FLt(F(0), FAbs(ry)))

\* An arc whose degenerate case draws the line to the pixel of (x,y).
arcToMapped(v, rx, ry, xAxisRotation, largeArc, sweep, x, y) ==
    IF arcDegenerate(rx, ry) THEN ZLineTo(v, absVec2(x, y))
    ELSE ZCubes(v, arcCubics(arcCentre(v.pen, FAbs(rx), FAbs(ry),
                                       xAxisRotation, largeArc, sweep, x, y)))

\* The body of AbsArcTo on an enabled path: the rasterizer after it.
arcTo(v, rx, ry, xAxisRotation, largeArc, sweep, x, y) ==
    IF arcDegenerate(rx, ry) THEN ZLineTo(v, <<x, y>>)
    ELSE ZCubes(v, arcCubics(arcCentre(v.pen, FAbs(rx), FAbs(ry),
                                       xAxisRotation, largeArc, sweep, x, y)))

\* The model's arithmetic is exact for this arc from the current pen.
ArcExact(rx, ry, xAxisRotation, largeArc, sweep, x, y) ==
    arcDegenerate(rx, ry)
    \/ arcCentre(zz.pen, FAbs(rx), FAbs(ry), xAxisRotation, largeArc, sweep,
                 x, y).exact

AbsArcTo(rx, ry, xAxisRotation, largeArc, sweep, x, y) ==
    PathStep(<<"AbsArcTo", rx, ry, xAxisRotation, largeArc, sweep, x, y>>,
             smoothTypeNone, prevSmoothPoint,
             arcTo(ZBegin(zz), rx, ry, xAxisRotation, largeArc, sweep, x, y))

\* RelArcTo has no guard of its own: it maps the endpoint and calls AbsArcTo.
RelArcTo(rx, ry, xAxisRotation, largeArc, sweep, x, y) ==
    LET a == relVec2(zz.pen, x, y)
    IN  PathStep(<<"RelArcTo", rx, ry, xAxisRotation, largeArc, sweep, x, y>>,
                 smoothTypeNone, prevSmoothPoint,
                 arcTo(ZBegin(zz), rx, ry, xAxisRotation, largeArc, sweep,
                       unabsX(a[1]), unabsY(a[2])))

RelArcExact(rx, ry, xAxisRotation, largeArc, sweep, x, y) ==
    LET a == relVec2(zz.pen, x, y)
    IN  ArcExact(rx, ry, xAxisRotation, largeArc, sweep,
                 unabsX(a[1]), unabsY(a[2]))

(***************************************************************************)
(* The callers.  Every specification starts from the zero value and       *)
(* invokes the operations in any order; the specifications differ in the  *)
(* arguments the caller draws.                                             *)
(***************************************************************************)
Black == RGBA(0, 0, 0, 255)

Malformed == RGBA(255, 0, 0, 0)

\* The view box of the spec's scenarios, (-32,-32)-(32,32), with a palette
\* whose slot 0 is opaque black and whose other slots are transparent.
ScenarioMetadata ==
    [ViewBox |-> ViewBox(-32, -32, 32, 32),
     Palette |-> [i \in Slots |-> IF i = 0 THEN Black ELSE ZeroColor]]

(***************************************************************************)
(* SpecPath: every path command on disabled paths.  Between two Resets    *)
(* the caller draws at most MaxDrawn absolute line and curve commands on  *)
(* enabled paths, which leave the pen, the smooth tracker and the         *)
(* coverage rasterizer in a state a later disabled path has to keep; the  *)
(* relative commands and the arcs it issues on disabled paths only.       *)
(***************************************************************************)
MaxDrawn == 1

Drawing == disabled \/ drawn < MaxDrawn

\* 128 x 64 pixels: the scales differ in the two dimensions.
PathRect == Rect(0, 0, 128, 64)

PathPoint == <<F(20), F(10)>>

PathQuad == <<F(10), F(-10), F(20), F(0)>>

PathCube == <<F(10), F(-10), F(20), F(-10), F(20), F(0)>>

\* A half circle of radius 10.
PathArc == <<F(10), F(10), F(0), FALSE, TRUE, F(20), F(0)>>

NextPath ==
    \/ SetDstImage("img", PathRect, "Src")
    \/ Reset(ScenarioMetadata)
    \/ \E adj \in {0, 63} : StartPath(adj, F(0), F(0))
    \/ Drawing /\ ClosePathEndPath
    \/ Drawing /\ ClosePathAbsMoveTo(PathPoint[1], PathPoint[2])
    \/ disabled /\ ClosePathRelMoveTo(PathPoint[1], PathPoint[2])
    \/ Drawing /\ AbsHLineTo(PathPoint[1])
    \/ disabled /\ RelHLineTo(PathPoint[1])
    \/ Drawing /\ AbsVLineTo(PathPoint[2])
    \/ disabled /\ RelVLineTo(PathPoint[2])
    \/ Drawing /\ AbsLineTo(PathPoint[1], PathPoint[2])
    \/ disabled /\ RelLineTo(PathPoint[1], PathPoint[2])
    \/ Drawing /\ AbsSmoothQuadTo(PathPoint[1], PathPoint[2])
    \/ disabled /\ RelSmoothQuadTo(PathPoint[1], PathPoint[2])
    \/ Drawing /\ AbsQuadTo(PathQuad[1], PathQuad[2], PathQuad[3], PathQuad[4])
    \/ disabled /\ RelQuadTo(PathQuad[1], PathQuad[2], PathQuad[3], PathQuad[4])
    \/ Drawing /\ AbsSmoothCubeTo(PathQuad[1], PathQuad[2],
                                  PathQuad[3], PathQuad[4])
    \/ disabled /\ RelSmoothCubeTo(PathQuad[1], PathQuad[2],
                                   PathQuad[3], PathQuad[4])
    \/ Drawing /\ AbsCubeTo(PathCube[1], PathCube[2], PathCube[3],
                            PathCube[4], PathCube[5], PathCube[6])
    \/ disabled /\ RelCubeTo(PathCube[1], PathCube[2], PathCube[3],
                             PathCube[4], PathCube[5], PathCube[6])
    \/ disabled /\ AbsArcTo(PathArc[1], PathArc[2], PathArc[3], PathArc[4],
                            PathArc[5], PathArc[6], PathArc[7])
    \/ disabled /\ RelArcTo(PathArc[1], PathArc[2], PathArc[3], PathArc[4],
                            PathArc[5], PathArc[6], PathArc[7])

SpecPath == Init /\ [][NextPath]_vars

PathCommands ==
    {"ClosePathEndPath", "ClosePathAbsMoveTo", "ClosePathRelMoveTo",
     "AbsHLineTo", "RelHLineTo", "AbsVLineTo", "RelVLineTo", "AbsLineTo",
     "RelLineTo", "AbsSmoothQuadTo", "RelSmoothQuadTo", "AbsQuadTo",
     "RelQuadTo", "AbsSmoothCubeTo", "RelSmoothCubeTo", "AbsCubeTo",
     "RelCubeTo", "AbsArcTo", "RelArcTo"}

\* C2: on a disabled path every path command is a no-op: it makes no call
\* on the coverage rasterizer (no segment, no draw on the destination) and
\* leaves the pen and the rest of the coverage rasterizer, the smooth kind
\* and point, both register banks and selectors, the destination, the
\* paint and the disabled flag as they were.
DisabledCommandsAreNoOps ==
    [][(disabled /\ op'[1] \in PathCommands) =>
          /\ calls' = <<>>
          /\ UNCHANGED <<zz, smoothVars, regVars, dstVars, xformVars,
                         paintVars, lodVars, metadata, disabled,
                         firstStartPath>>]_vars

\* A relative arc was issued on a disabled path that follows an enabled
\* path with a quadratic curve: the pen is away from the start of the
\* subpath and the smooth kind is Quad.
DisabledArcAfterCurve ==
    /\ disabled
    /\ op[1] = "RelArcTo"
    /\ calls = <<>>
    /\ prevSmoothType = smoothTypeQuad
    /\ zz.pen # zz.first


(***************************************************************************)
(* SpecSmooth: the curves and their smooth variants, on the 64 x 64       *)
(* destination of the spec's scenarios.  After a Reset the caller starts  *)
(* a path before it draws, and at most MaxCurves commands act between two *)
(* Resets.                                                                 *)
(***************************************************************************)
MaxCurves == 3

Room == ~freshCycle /\ drawn < MaxCurves

SmoothRect == Rect(0, 0, 64, 64)

SmoothPoint == <<F(30), F(0)>>

SmoothQuad == <<F(10), F(-10), F(20), F(0)>>

SmoothCube == <<F(10), F(-10), F(20), F(-10), F(20), F(0)>>

SmoothCube2 == <<F(30), F(10), F(30), F(0)>>

NextSmooth ==
    \/ SetDstImage("img", SmoothRect, "Over")
    \/ Reset(ScenarioMetadata)
    \/ StartPath(0, F(0), F(0))
    \/ Room /\ AbsLineTo(SmoothPoint[1], SmoothPoint[2])
    \/ Room /\ AbsQuadTo(SmoothQuad[1], SmoothQuad[2],
                         SmoothQuad[3], SmoothQuad[4])
    \/ Room /\ RelQuadTo(SmoothQuad[1], SmoothQuad[2],
                         SmoothQuad[3], SmoothQuad[4])
    \/ Room /\ AbsCubeTo(SmoothCube[1], SmoothCube[2], SmoothCube[3],
                         SmoothCube[4], SmoothCube[5], SmoothCube[6])
    \/ Room /\ RelCubeTo(SmoothCube[1], SmoothCube[2], SmoothCube[3],
                         SmoothCube[4], SmoothCube[5], SmoothCube[6])
    \/ Room /\ AbsSmoothQuadTo(SmoothPoint[1], SmoothPoint[2])
    \/ Room /\ RelSmoothQuadTo(SmoothPoint[1], SmoothPoint[2])
    \/ Room /\ AbsSmoothCubeTo(SmoothCube2[1], SmoothCube2[2],
                               SmoothCube2[3], SmoothCube2[4])
    \/ Room /\ RelSmoothCubeTo(SmoothCube2[1], SmoothCube2[2],
                               SmoothCube2[3], SmoothCube2[4])

SpecSmooth == Init /\ [][NextSmooth]_vars

QuadCommands == {"AbsQuadTo", "RelQuadTo", "AbsSmoothQuadTo", "RelSmoothQuadTo"}

CubeCommands == {"AbsCubeTo", "RelCubeTo", "AbsSmoothCubeTo", "RelSmoothCubeTo"}

SmoothQuadCommands == {"AbsSmoothQuadTo", "RelSmoothQuadTo"}

SmoothCubeCommands == {"AbsSmoothCubeTo", "RelSmoothCubeTo"}

\* The path commands of SpecSmooth that are no curve, and StartPath.
NoCurve == {"StartPath", "AbsLineTo"}

\* 2*pen - c
Reflection(pen, c) ==
    <<FSub(FMul(F(2), pen[1]), c[1]), FSub(FMul(F(2), pen[2]), c[2])>>

\* The first control point the last operation handed to QuadTo or CubeTo.
LeadingControl(cs) == cs[1][2]

\* The last control point the last operation handed to QuadTo or CubeTo.
TrailingControl(cs) == IF cs[1][1] = "QuadTo" THEN cs[1][2] ELSE cs[1][3]

\* C5: a smooth command on an enabled path (the scales being finite)
\* whose preceding command was StartPath, a line or a curve of the other
\* kind hands the pen itself to the coverage rasterizer as its leading
\* control point.
SmoothWithoutCurveUsesPen ==
    [][(/\ ~disabled
        /\ IsFin(scaleX) /\ IsFin(scaleY)
        /\ \/ /\ op'[1] \in SmoothQuadCommands
              /\ op[1] \in NoCurve \cup CubeCommands
           \/ /\ op'[1] \in SmoothCubeCommands
              /\ op[1] \in NoCurve \cup QuadCommands)
          => LeadingControl(calls') = zz.pen]_vars

\* A smooth quadratic curve right after StartPath at (0,0) on 64 x 64
\* pixels, the smooth point being (0,0): its leading control point is
\* (64,64), the reflection of (0,0) across the pen (32,32).
SmoothQuadReflectsAfterStartPath ==
    /\ op[1] = "AbsSmoothQuadTo"
    /\ ~disabled
    /\ calls = <<<<"QuadTo", <<F(64), F(64)>>, <<F(62), F(32)>>>>>>

\* C6: a smooth command on an enabled path right after a curve of its kind
\* hands the reflection of that curve's trailing control point across the
\* pen to the coverage rasterizer as its leading control point; for an
\* absolute curve the trailing control point is abs(x1,y1) (quadratic) or
\* abs(x2,y2) (cubic); and, the scales being finite, AbsCubeTo(10,-10,20,
\* -10,20,0) then AbsSmoothCubeTo gives abs(20,10).
SmoothAfterCurveReflects ==
    [][~disabled =>
          /\ (op'[1] \in SmoothQuadCommands /\ op[1] \in QuadCommands)
                => LeadingControl(calls') =
                       Reflection(zz.pen, TrailingControl(calls))
          /\ (op'[1] \in SmoothCubeCommands /\ op[1] \in CubeCommands)
                => LeadingControl(calls') =
                       Reflection(zz.pen, TrailingControl(calls))
          /\ (op'[1] \in SmoothQuadCommands /\ op[1] = "AbsQuadTo")
                => LeadingControl(calls') =
                       Reflection(zz.pen, absVec2(op[2], op[3]))
          /\ (op'[1] \in SmoothCubeCommands /\ op[1] = "AbsCubeTo")
                => LeadingControl(calls') =
                       Reflection(zz.pen, absVec2(op[4], op[5]))
          /\ (/\ op'[1] = "AbsSmoothCubeTo"
              /\ op = <<"AbsCubeTo">> \o SmoothCube
              /\ IsFin(scaleX) /\ IsFin(scaleY))
                => LeadingControl(calls') = absVec2(F(20), F(10))]_vars

\* AbsCubeTo(10,-10,20,-10,20,0) then AbsSmoothCubeTo on 64 x 64 pixels:
\* the first control point is (52,42), the pixel of (20,10).
SmoothCubeScenario ==
    /\ op[1] = "AbsSmoothCubeTo"
    /\ ~disabled
    /\ scaleX = F(1) /\ scaleY = F(1)
    /\ LeadingControl(calls) = <<F(52), F(42)>>
    /\ zz.pen = <<F(62), F(32)>>


(***************************************************************************)
(* SpecSel: the selectors.  The caller writes transparent black, which    *)
(* the banks hold already, so that the selectors alone change; it walks   *)
(* one selector at a time, the other being 0 or 63.                        *)
(***************************************************************************)
SelBytes == {0, 63, 64, 255}

Transparent == <<"rgba", ZeroColor>>

NextSel ==
    \/ Reset(ZeroMetadata)
    \/ \E v \in SelBytes : SetCSel(v)
    \/ \E v \in SelBytes : SetNSel(v)
    \/ \E incr \in BOOLEAN :
          /\ incr => nSel \in {0, 63}
          /\ SetCReg(0, incr, Transparent)
    \/ \E incr \in BOOLEAN :
          /\ incr => cSel \in {0, 63}
          /\ SetNReg(0, incr, F(0))

SpecSel == Init /\ [][NextSel]_vars

\* C7 as the code has it: the selectors are bytes, in 0..255; SetCSel(v)
\* and SetNSel(v) assign v & 0x3F and leave the other selector alone; a
\* register write with the increment flag advances its selector by 1
\* modulo 256 (from 63 to 64, from 255 to 0) and without the flag leaves
\* it; the slot a write or StartPath uses is its low six bits, in 0..63.
SelectorsAreBytes ==
    [][/\ cSel' \in 0..255 /\ nSel' \in 0..255
       /\ RegSlot(cSel', 0) \in 0..63 /\ RegSlot(nSel', 0) \in 0..63
       /\ op'[1] = "SetCSel" => cSel' = op'[2] % 64 /\ nSel' = nSel
       /\ op'[1] = "SetNSel" => nSel' = op'[2] % 64 /\ cSel' = cSel
       /\ op'[1] = "SetCReg" =>
             /\ cSel' = IF op'[3] THEN (cSel + 1) % 256 ELSE cSel
             /\ nSel' = nSel
       /\ op'[1] = "SetNReg" =>
             /\ nSel' = IF op'[3] THEN (nSel + 1) % 256 ELSE nSel
             /\ cSel' = cSel]_vars

\* A colour write with the increment flag took c_sel from 63 to 64.
SelectorPast63 == op[1] = "SetCReg" /\ op[3] /\ cSel = 64

\* C7 as stated: in every reachable state both selectors lie in 0..63.
SelectorsInSixBits == cSel \in 0..63 /\ nSel \in 0..63

(***************************************************************************)
(* SpecReg: the register banks.  After a Reset the caller sets the        *)
(* selectors and writes opaque black and 1 while fewer than MaxWrites     *)
(* slots differ from the banks the Reset left, and then starts paths.     *)
(***************************************************************************)
MaxWrites == 2

DirtySlots ==
    Cardinality({i \in Slots : cReg[i] # metadata.Palette[i]})
    + Cardinality({i \in Slots : nReg[i] # F(0)})

Writing == freshCycle /\ DirtySlots < MaxWrites

RegAdjusts == {2, 255}

Opaque == <<"rgba", Black>>

NextReg ==
    \/ Reset(ScenarioMetadata)
    \/ freshCycle /\ SetCSel(63)
    \/ freshCycle /\ SetNSel(63)
    \/ \E adj \in RegAdjusts, incr \in BOOLEAN :
          Writing /\ SetCReg(adj, incr, Opaque)
    \/ \E adj \in RegAdjusts, incr \in BOOLEAN :
          Writing /\ SetNReg(adj, incr, F(1))
    \/ \E adj \in RegAdjusts \cup {0} : StartPath(adj, F(0), F(0))

SpecReg == Init /\ [][NextReg]_vars

\* (sel - adj) mod 64
SlotOf(sel, adj) == (sel - adj) % 64

\* C8: SetCReg changes no colour slot but (c_sel - adj) mod 64, and
\* neither the scalar bank nor n_sel; SetNReg stores its value in slot
\* (n_sel - adj) mod 64, changes no other scalar slot, and neither the
\* colour bank nor c_sel; the slot is in 0..63 for every selector and
\* every adjustment; StartPath reads its colour from slot
\* (c_sel - adj) mod 64.
WritesHitOneSlot ==
    [][/\ op'[1] = "SetCReg" =>
             /\ SlotOf(cSel, op'[2]) \in 0..63
             /\ \A i \in Slots \ {SlotOf(cSel, op'[2])} : cReg'[i] = cReg[i]
             /\ nReg' = nReg /\ nSel' = nSel
       /\ op'[1] = "SetNReg" =>
             /\ SlotOf(nSel, op'[2]) \in 0..63
             /\ nReg' = [nReg EXCEPT ![SlotOf(nSel, op'[2])] = op'[4]]
             /\ cReg' = cReg /\ cSel' = cSel
       /\ op'[1] = "StartPath" =>
             flatColor' = cReg[SlotOf(cSel, op'[2])]]_vars

\* SetCReg(2, true, opaque black) with c_sel = 64 wrote slot 62.
WriteBelowSelector64 ==
    /\ op = <<"SetCReg", 2, TRUE, Opaque>>
    /\ cSel = 65
    /\ cReg[62] = Black
    /\ cReg[63] = ZeroColor

(***************************************************************************)
(* SpecReset: Reset from the states the other operations leave.  The      *)
(* caller sets selectors and LOD bounds, writes registers while fewer     *)
(* than MaxWrites slots differ from the banks the last Reset left, starts *)
(* paths and draws at most MaxDrawn curves between two Resets.            *)
(***************************************************************************)
NextReset ==
    \/ \E m \in {ScenarioMetadata, ZeroMetadata} : Reset(m)
    \/ SetCSel(63)
    \/ SetNSel(63)
    \/ \E incr \in BOOLEAN :
          DirtySlots < MaxWrites /\ SetCReg(0, incr, Opaque)
    \/ \E incr \in BOOLEAN :
          DirtySlots < MaxWrites /\ SetNReg(0, incr, F(1))
    \/ SetLOD(F(0), F(100))
    \/ StartPath(0, F(0), F(0))
    \/ Drawing /\ AbsQuadTo(SmoothQuad[1], SmoothQuad[2],
                            SmoothQuad[3], SmoothQuad[4])

SpecReset == Init /\ [][NextReset]_vars

\* C9: after Reset(m) the colour bank is m's palette, every scalar
\* register is 0, both selectors are 0, the LOD bounds are 0 and
\* +infinity, firstStartPath is set and the smooth kind is None.
ResetPostcondition ==
    op[1] = "Reset" =>
        /\ cReg = op[2].Palette
        /\ \A i \in Slots : nReg[i] = F(0)
        /\ cSel = 0 /\ nSel = 0
        /\ lod0 = F(0) /\ lod1 = Inf(1)
        /\ firstStartPath
        /\ prevSmoothType = smoothTypeNone

\* A Reset came after a path was started on opaque black, which Reset
\* leaves as the paint, and installed the palette.
ResetAfterPath ==
    /\ op[1] = "Reset"
    /\ ~disabled
    /\ flatColor = Black
    /\ cReg = ScenarioMetadata.Palette

(***************************************************************************)
(* SpecLod: the LOD gate.  The caller sets any two of LodValues as the    *)
(* bounds, binds rectangles of several heights and widths, one of them of *)
(* width 0, and starts paths on opaque black (adj 0 after a Reset) and on *)
(* transparent black.                                                      *)
(***************************************************************************)
LodValues == {F(0), F(64), F(100), positiveInfinity, NaN}

LodRects ==
    {Rect(0, 0, 64, 64), Rect(0, 0, 128, 64), Rect(0, 0, 64, 100),
     Rect(0, 0, 0, 64)}

NextLod ==
    \/ Reset(ScenarioMetadata)
    \/ \E rr \in LodRects : SetDstImage("img", rr, "Src")
    \/ \E l0 \in LodValues, l1 \in LodValues : SetLOD(l0, l1)
    \/ \E adj \in {0, 1} : StartPath(adj, F(0), F(0))

SpecLod == Init /\ [][NextLod]_vars

\* A solid colour with non-zero alpha.
Solid(c) == validAlphaPremulColor(c) /\ c.A # 0

\* C3 as the code has it: a StartPath on a solid colour with non-zero
\* alpha disables the path iff a bound is NaN or h < lod0 or h >= lod1, h
\* being the height of the stored rectangle; SetDstImage stores the zero
\* rectangle (height 0) for an empty one, whatever its height, and the
\* given rectangle otherwise; the bounds are those of the last SetLOD or
\* Reset, no other operation changing them; with the bounds (0, +inf) no
\* height disables.
LodGate ==
    [][/\ (op'[1] = "StartPath" /\ Solid(cReg[SlotOf(cSel, op'[2])])) =>
             /\ disabled' <=> \/ IsNaN(lod0) \/ IsNaN(lod1)
                              \/ FLt(F(Dy(r)), lod0)
                              \/ FLe(lod1, F(Dy(r)))
             /\ (lod0 = F(0) /\ lod1 = Inf(1)) => ~disabled'
       /\ op'[1] = "SetDstImage" =>
             r' = IF Dx(op'[3]) <= 0 \/ Dy(op'[3]) <= 0 THEN ZeroRect
                  ELSE op'[3]
       /\ op'[1] = "SetLOD" => lod0' = op'[2] /\ lod1' = op'[3]
       /\ op'[1] = "Reset" => lod0' = F(0) /\ lod1' = Inf(1)
       /\ op'[1] \notin {"SetLOD", "Reset"} => UNCHANGED lodVars]_vars

\* A StartPath on opaque black was disabled by a NaN lower bound, the
\* height 64 being below the upper bound 100.
DisabledByNaN ==
    /\ op[1] = "StartPath"
    /\ flatColor = Black
    /\ disabled
    /\ IsNaN(lod0)
    /\ lod1 = F(100)
    /\ Dy(r) = 64

\* C3 as stated: a StartPath on a solid colour with non-zero alpha
\* disables the path iff h < lod0 or h >= lod1.
LodGateAsStated ==
    [][(op'[1] = "StartPath" /\ Solid(cReg[SlotOf(cSel, op'[2])])) =>
          (disabled' <=> (FLt(F(Dy(r)), lod0) \/ FLe(lod1, F(Dy(r)))))]_vars

(***************************************************************************)
(* SpecPaint: the paint of StartPath, the latch and the draw.  The caller *)
(* writes a malformed colour, opaque black and transparent black to       *)
(* colour register 0, binds and unbinds a destination with a 64 x 64 and  *)
(* an empty rectangle, and closes at most MaxDrawn enabled paths between  *)
(* two Resets.                                                             *)
(***************************************************************************)
PaintColors == {<<"rgba", Malformed>>, Opaque, Transparent}

PaintRects == {Rect(0, 0, 64, 64), Rect(0, 0, 0, 0)}

NextPaint ==
    \/ Reset(ScenarioMetadata)
    \/ \E d \in {"nil", "img"}, rr \in PaintRects : SetDstImage(d, rr, "Src")
    \/ \E c \in PaintColors : SetCReg(0, FALSE, c)
    \/ SetLOD(F(100), F(200))
    \/ StartPath(0, F(0), F(0))
    \/ Drawing /\ ClosePathEndPath

SpecPaint == Init /\ [][NextPaint]_vars

\* Neither a valid premultiplied colour nor a gradient descriptor.
MalformedColor(c) == ~validAlphaPremulColor(c) /\ ~IsGradientDescriptor(c)

\* C1: a StartPath whose colour register holds a malformed colour leaves
\* the path disabled, whatever the state before it.
MalformedDisables ==
    [][(op'[1] = "StartPath" /\ MalformedColor(cReg[SlotOf(cSel, op'[2])]))
          => disabled']_vars

\* The draw calls among a sequence of calls.
Draws(cs) == {i \in DOMAIN cs : cs[i][1] = "Draw"}

\* A path started on a malformed colour was drawn.
MalformedDrawn ==
    /\ op[1] = "ClosePathEndPath"
    /\ MalformedColor(flatColor)
    /\ Draws(calls) # {}

\* C4 as the code has it: ClosePathEndPath draws iff the path is enabled
\* and a destination is bound, and then once, over the stored rectangle,
\* be it empty; no other operation draws.
DrawIffEnabledAndBound ==
    [][/\ op'[1] = "ClosePathEndPath" =>
             /\ Draws(calls') # {} <=> (~disabled /\ dst # "nil")
             /\ \A i \in Draws(calls') : i = Len(calls') /\ calls'[i][2] = r
       /\ op'[1] # "ClosePathEndPath" => Draws(calls') = {}]_vars

\* ClosePathEndPath drew a path filled with opaque black over the empty
\* rectangle of a bound destination.
DrawOverEmptyRect ==
    /\ op[1] = "ClosePathEndPath"
    /\ Draws(calls) # {}
    /\ Empty(r)
    /\ dst = "img"
    /\ fill = "flatImage"
    /\ flatColor = Black

\* C4 as stated: ClosePathEndPath draws iff the path is enabled and a
\* destination is bound with a non-empty rectangle.
DrawIffNonEmptyRect ==
    [][op'[1] = "ClosePathEndPath" =>
          (Draws(calls') # {} <=> (~disabled /\ dst # "nil" /\ ~Empty(r)))]_vars

\* C10 as the code has it: the operator is latched by the StartPaths that
\* find firstStartPath set and leave their path enabled, and by nothing
\* else; such a StartPath clears firstStartPath, a StartPath that disables
\* its path leaves it as it was; so the operator is latched at most once
\* between two Resets.
LatchOnFirstEnabledPath ==
    [][/\ op'[1] = "StartPath" =>
             /\ Latches(calls') = IF firstStartPath /\ ~disabled' THEN 1 ELSE 0
             /\ firstStartPath' = (firstStartPath /\ disabled')
       /\ op'[1] # "StartPath" => Latches(calls') = 0
       /\ latchCount' <= 1]_vars

\* The first StartPath after a Reset, on opaque black, was disabled by the
\* LOD gate and latched nothing; firstStartPath is still set.
FirstPathDisabledNoLatch ==
    /\ op[1] = "StartPath"
    /\ flatColor = Black
    /\ lod0 = F(100)
    /\ disabled
    /\ firstStartPath
    /\ latchCount = 0
    /\ ~freshCycle

\* C10 as stated: the first StartPath after a Reset latches the operator
\* and clears firstStartPath, whether or not it disables its path.
LatchOnFirstPath ==
    [][(op'[1] = "StartPath" /\ freshCycle) =>
          (Latches(calls') = 1 /\ ~firstStartPath')]_vars

(***************************************************************************)
(* SpecPen: every path command on enabled paths.  After a Reset the       *)
(* caller starts a path, at the origin of the graphic or away from it, on *)
(* a destination of 128 x 64 pixels (the scales are 2 and 1), and at most *)
(* MaxPen commands act between two Resets.  An arc is issued where the    *)
(* model's arithmetic is exact for it.                                     *)
(***************************************************************************)
MaxPen == 2

PenRoom == ~freshCycle /\ drawn < MaxPen

PenRect == Rect(0, 0, 128, 64)

PenStarts == {<<F(0), F(0)>>, <<F(-10), F(10)>>}

PenPoint == <<F(10), F(10)>>

PenQuad == <<F(10), F(-10), F(20), F(0)>>

PenCube == <<F(10), F(-10), F(20), F(-10), F(20), F(0)>>

\* The spec's degenerate arc: AbsArcTo(0, 5, 0, false, true, 10, 10).
DegenerateArc == <<F(0), F(5), F(0), FALSE, TRUE, F(10), F(10)>>

\* It, and an arc whose second radius is NaN.
DegenerateArcs ==
    {DegenerateArc, <<F(5), NaN, F(0), FALSE, TRUE, F(10), F(10)>>}

\* Arcs of radius 10 to (10,10): a quarter turn and three quarters of one
\* from the origin.
PenArcs ==
    {<<F(10), F(10), F(0), FALSE, TRUE, F(10), F(10)>>,
     <<F(10), F(10), F(0), TRUE, TRUE, F(10), F(10)>>,
     <<F(10), F(10), F(0), FALSE, FALSE, F(10), F(10)>>}

\* An arc to (10,10) whose x radius is +Inf.
FlatArc == <<positiveInfinity, F(10), F(0), FALSE, TRUE, F(10), F(10)>>

NextPen ==
    \/ SetDstImage("img", PenRect, "Src")
    \/ Reset(ScenarioMetadata)
    \/ \E p \in PenStarts : StartPath(0, p[1], p[2])
    \/ PenRoom /\ ClosePathAbsMoveTo(PenPoint[1], PenPoint[2])
    \/ PenRoom /\ ClosePathRelMoveTo(PenPoint[1], PenPoint[2])
    \/ PenRoom /\ AbsHLineTo(PenPoint[1])
    \/ PenRoom /\ RelHLineTo(PenPoint[1])
    \/ PenRoom /\ AbsVLineTo(PenPoint[2])
    \/ PenRoom /\ RelVLineTo(PenPoint[2])
    \/ PenRoom /\ AbsLineTo(PenPoint[1], PenPoint[2])
    \/ PenRoom /\ RelLineTo(PenPoint[1], PenPoint[2])
    \/ PenRoom /\ AbsSmoothQuadTo(PenPoint[1], PenPoint[2])
    \/ PenRoom /\ RelSmoothQuadTo(PenPoint[1], PenPoint[2])
    \/ PenRoom /\ AbsQuadTo(PenQuad[1], PenQuad[2], PenQuad[3], PenQuad[4])
    \/ PenRoom /\ RelQuadTo(PenQuad[1], PenQuad[2], PenQuad[3], PenQuad[4])
    \/ PenRoom /\ AbsSmoothCubeTo(PenQuad[1], PenQuad[2], PenQuad[3], PenQuad[4])
    \/ PenRoom /\ RelSmoothCubeTo(PenQuad[1], PenQuad[2], PenQuad[3], PenQuad[4])
    \/ PenRoom /\ AbsCubeTo(PenCube[1], PenCube[2], PenCube[3],
                            PenCube[4], PenCube[5], PenCube[6])
    \/ PenRoom /\ RelCubeTo(PenCube[1], PenCube[2], PenCube[3],
                            PenCube[4], PenCube[5], PenCube[6])
    \/ \E a \in DegenerateArcs :
          PenRoom /\ AbsArcTo(a[1], a[2], a[3], a[4], a[5], a[6], a[7])
    \/ \E a \in DegenerateArcs :
          PenRoom /\ RelArcTo(a[1], a[2], a[3], a[4], a[5], a[6], a[7])
    \/ \E a \in PenArcs :
          /\ PenRoom
          /\ ArcExact(a[1], a[2], a[3], a[4], a[5], a[6], a[7])
          /\ AbsArcTo(a[1], a[2], a[3], a[4], a[5], a[6], a[7])
    \/ \E a \in PenArcs :
          /\ PenRoom
          /\ RelArcExact(a[1], a[2], a[3], a[4], a[5], a[6], a[7])
          /\ RelArcTo(a[1], a[2], a[3], a[4], a[5], a[6], a[7])
    \/ /\ PenRoom
       /\ ArcExact(FlatArc[1], FlatArc[2], FlatArc[3], FlatArc[4], FlatArc[5], FlatArc[6], FlatArc[7])
       /\ AbsArcTo(FlatArc[1], FlatArc[2], FlatArc[3], FlatArc[4], FlatArc[5], FlatArc[6], FlatArc[7])

SpecPen == Init /\ [][NextPen]_vars

\* The endpoint arguments of a path command, the last two of its arguments.
EndX(o) == o[Len(o) - 1]

EndY(o) == o[Len(o)]

AbsEndpointCommands ==
    {"ClosePathAbsMoveTo", "AbsLineTo", "AbsSmoothQuadTo", "AbsQuadTo",
     "AbsSmoothCubeTo", "AbsCubeTo", "AbsArcTo"}

RelEndpointCommands ==
    {"ClosePathRelMoveTo", "RelLineTo", "RelSmoothQuadTo", "RelQuadTo",
     "RelSmoothCubeTo", "RelCubeTo", "RelArcTo"}

\* The pen the spec expects after command o issued with the pen at pen.
ExpectedPen(o, pen) ==
    IF o[1] \in AbsEndpointCommands THEN absVec2(EndX(o), EndY(o))
    ELSE IF o[1] \in RelEndpointCommands THEN relVec2(pen, EndX(o), EndY(o))
    ELSE IF o[1] = "AbsHLineTo" THEN <<absX(o[2]), pen[2]>>
    ELSE IF o[1] = "RelHLineTo" THEN <<FAdd(pen[1], relX(o[2])), pen[2]>>
    ELSE IF o[1] = "AbsVLineTo" THEN <<pen[1], absY(o[2])>>
    ELSE <<pen[1], FAdd(pen[2], relY(o[2]))>>

EndpointCommands ==
    AbsEndpointCommands \cup RelEndpointCommands
    \cup {"AbsHLineTo", "RelHLineTo", "AbsVLineTo", "RelVLineTo"}

\* C11: every command with an endpoint, issued on an enabled path, leaves
\* the pen at that endpoint in pixels: absolute commands at abs(x,y),
\* relative ones at pen + rel(dx,dy), horizontal lines keeping pen.y and
\* vertical ones pen.x; AbsArcTo with a radius that is not positive too.
\* It is stated for a finite pen, scales that are finite and not zero and
\* arcs without an infinite radius.
PenAtPixelEndpoint ==
    [][(/\ ~disabled
        /\ op'[1] \in EndpointCommands
        /\ IsFin(zz.pen[1]) /\ IsFin(zz.pen[2])
        /\ IsFin(scaleX) /\ IsFin(scaleY)
        /\ scaleX # F(0) /\ scaleY # F(0)
        /\ (op'[1] \in {"AbsArcTo", "RelArcTo"} => ~IsInf(op'[2]) /\ ~IsInf(op'[3]))) =>
          zz'.pen = ExpectedPen(op', zz.pen)]_vars

\* The spec's degenerate arc on 128 x 64 pixels left the pen at (10,10),
\* the raw endpoint, whose pixel is (84,42).
DegenerateArcPenRaw ==
    /\ op = <<"AbsArcTo">> \o DegenerateArc
    /\ ~disabled
    /\ scaleX = F(2) /\ scaleY = F(1)
    /\ zz.pen = <<F(10), F(10)>>
    /\ absVec2(F(10), F(10)) = <<F(84), F(42)>>

\* The pen as the code moves it: as ExpectedPen, but the degenerate arc
\* leaves it at the endpoint it hands to LineTo (AbsArcTo: the raw (x,y);
\* RelArcTo: unabs(pen + rel(x,y))), and ClosePathRelMoveTo measures from
\* the start of the subpath, where ClosePath has taken the pen.
CodePen(o, v) ==
    IF o[1] = "AbsArcTo" /\ arcDegenerate(o[2], o[3]) THEN <<EndX(o), EndY(o)>>
    ELSE IF o[1] = "RelArcTo" /\ arcDegenerate(o[2], o[3])
    THEN <<unabsX(relVec2(v.pen, EndX(o), EndY(o))[1]),
           unabsY(relVec2(v.pen, EndX(o), EndY(o))[2])>>
    ELSE IF o[1] = "ClosePathRelMoveTo" THEN relVec2(v.first, EndX(o), EndY(o))
    ELSE ExpectedPen(o, v.pen)

\* The pen after every command with an endpoint on an enabled path, the
\* pen being finite, the scales finite and not zero and no radius of an
\* arc infinite, is CodePen.
PenAsCoded ==
    [][(/\ ~disabled
        /\ op'[1] \in EndpointCommands
        /\ IsFin(zz.pen[1]) /\ IsFin(zz.pen[2])
        /\ IsFin(scaleX) /\ IsFin(scaleY)
        /\ scaleX # F(0) /\ scaleY # F(0)
        /\ (op'[1] \in {"AbsArcTo", "RelArcTo"} => ~IsInf(op'[2]) /\ ~IsInf(op'[3]))) =>
          zz'.pen = CodePen(op', zz)]_vars

(***************************************************************************)
(* SpecGrad: gradients.  The palette of the metadata holds three gradient *)
(* descriptors (slots 60, 61, 62), the colour of a stop that is white or  *)
(* malformed (slot 63) and opaque black (slot 0); the caller writes the   *)
(* scalars 1/2 and 2 to the scalar registers 63 and 0, and starts paths   *)
(* on the descriptors.                                                     *)
(***************************************************************************)
\* A gradient descriptor: A = 0 and bit 7 of B set; the number of stops in
\* R, the colour base and the spread in G, the scalar base and the shape
\* in B.
Descriptor(nStops, cBase, nBase, spread, shape) ==
    RGBA(nStops, cBase + 64 * spread, 128 + 64 * shape + nBase, 0)

\* No stop; its geometry is read below scalar base 0.
NoStops == Descriptor(0, 0, 0, 0, 0)

\* Linear, two stops from colour slots 63, 0 and scalar slots 63, 0.
TwoStops == Descriptor(2, 63, 63, 0, 0)

\* Circular, one stop from colour slot 0 and scalar slot 2.
OneStop == Descriptor(1, 0, 2, 1, 1)

White == RGBA(255, 255, 255, 255)

GradMetadata(c) ==
    [ViewBox |-> ViewBox(-32, -32, 32, 32),
     Palette |-> [i \in Slots |->
                     CASE i = 0 -> Black
                       [] i = 60 -> NoStops
                       [] i = 61 -> OneStop
                       [] i = 62 -> TwoStops
                       [] i = 63 -> c
                       [] OTHER -> ZeroColor]]

GradRect == Rect(0, 0, 128, 64)

GradScalars == {Rat(1, 2), F(2)}

NextGrad ==
    \/ SetDstImage("img", GradRect, "Src")
    \/ \E c \in {White, Malformed} : Reset(GradMetadata(c))
    \/ \E adj \in {0, 1}, f \in GradScalars : SetNReg(adj, FALSE, f)
    \/ \E adj \in {2, 3, 4} : StartPath(adj, F(0), F(0))

SpecGrad == Init /\ [][NextGrad]_vars

\* The fields of a gradient descriptor.
NStopsOf(c) == c.R % 64

CBaseOf(c) == c.G % 64

NBaseOf(c) == c.B % 64

\* Some stop of descriptor c is bad: its colour is not valid premultiplied,
\* or its offset is outside [0,1], or it is not the first stop and its
\* offset is not greater than the offset of the stop before it.
BadStop(c) ==
    \E i \in 0..(NStopsOf(c) - 1) :
        LET n == nReg[(NBaseOf(c) + i) % 64]
        IN  \/ ~validAlphaPremulColor(cReg[(CBaseOf(c) + i) % 64])
            \/ ~(FLe(F(0), n) /\ FLe(n, F(1)))
            \/ (i > 0 /\ ~FLt(nReg[(NBaseOf(c) + i - 1) % 64], n))

\* C12: a StartPath on a gradient descriptor makes the gradient the fill
\* and disables the path iff some stop is bad (or the LOD gate skips the
\* path); with no stop the initialisation succeeds.
GradientFailsIffBadStop ==
    [][(op'[1] = "StartPath"
        /\ IsGradientDescriptor(cReg[SlotOf(cSel, op'[2])])) =>
          LET c == cReg[SlotOf(cSel, op'[2])]
          IN  /\ fill' = "gradient"
              /\ disabled' <=> (BadStop(c) \/ LodSkip(F(Dy(r))))
              /\ NStopsOf(c) = 0 => ~BadStop(c)]_vars

\* A StartPath on the descriptor of two stops, whose offsets are both 1/2
\* and whose colours are valid, disabled the path.
EqualOffsetsDisabled ==
    /\ op = <<"StartPath", 2, F(0), F(0)>>
    /\ flatColor = TwoStops
    /\ nReg[63] = Rat(1, 2) /\ nReg[0] = Rat(1, 2)
    /\ cReg[63] = White /\ cReg[0] = Black
    /\ disabled

\* The commands after which the smooth kind is None.
StraightCommands ==
    {"ClosePathAbsMoveTo", "ClosePathRelMoveTo", "AbsHLineTo", "RelHLineTo",
     "AbsVLineTo", "RelVLineTo", "AbsLineTo", "RelLineTo", "AbsArcTo",
     "RelArcTo"}

\* C13: on an enabled path the smooth kind is None after StartPath, a
\* move, a line and an arc, Quad after the four quadratic commands and
\* Cube after the four cubic ones; after a curve the smooth point is the
\* trailing control point handed to the coverage rasterizer (the control
\* point of a quadratic, the second of a cubic), which for the explicit
\* curves is the pixel of the arguments (x1,y1) (quadratic) or (x2,y2)
\* (cubic, smooth cubic); and a smooth quadratic right after a smooth
\* quadratic reflects the implicit control point of that one.
SmoothTrackerFollowsCommand ==
    [][/\ (op'[1] = "StartPath" /\ ~disabled') =>
             prevSmoothType' = smoothTypeNone
       /\ (~disabled /\ op'[1] \in StraightCommands) =>
             prevSmoothType' = smoothTypeNone
       /\ (~disabled /\ op'[1] \in QuadCommands) =>
             /\ prevSmoothType' = smoothTypeQuad
             /\ prevSmoothPoint' = TrailingControl(calls')
             /\ calls'[1][1] = "QuadTo"
       /\ (~disabled /\ op'[1] \in CubeCommands) =>
             /\ prevSmoothType' = smoothTypeCube
             /\ prevSmoothPoint' = TrailingControl(calls')
             /\ calls'[1][1] = "CubeTo"
       /\ (~disabled /\ op'[1] = "AbsQuadTo") =>
             prevSmoothPoint' = absVec2(op'[2], op'[3])
       /\ (~disabled /\ op'[1] = "RelQuadTo") =>
             prevSmoothPoint' = relVec2(zz.pen, op'[2], op'[3])
       /\ (~disabled /\ op'[1] = "AbsCubeTo") =>
             prevSmoothPoint' = absVec2(op'[4], op'[5])
       /\ (~disabled /\ op'[1] = "RelCubeTo") =>
             prevSmoothPoint' = relVec2(zz.pen, op'[4], op'[5])
       /\ (~disabled /\ op'[1] = "AbsSmoothCubeTo") =>
             prevSmoothPoint' = absVec2(op'[2], op'[3])
       /\ (~disabled /\ op'[1] = "RelSmoothCubeTo") =>
             prevSmoothPoint' = relVec2(zz.pen, op'[2], op'[3])
       /\ (/\ ~disabled
           /\ op'[1] \in SmoothQuadCommands
           /\ op[1] \in SmoothQuadCommands) =>
             prevSmoothPoint' = Reflection(zz.pen, prevSmoothPoint)]_vars

\* Two smooth quadratics to (10,10) after StartPath at (0,0) on 128 x 64
\* pixels: the first has the implicit control point (128,64) and leaves
\* the pen at (84,42); the second has its reflection, (40,20).
SmoothQuadChain ==
    /\ op[1] = "AbsSmoothQuadTo"
    /\ ~disabled
    /\ prevSmoothType = smoothTypeQuad
    /\ zz.pen = <<F(84), F(42)>>
    /\ prevSmoothPoint = <<F(40), F(20)>>
    /\ calls = <<<<"QuadTo", <<F(40), F(20)>>, <<F(84), F(42)>>>>>>

\* |a| > 0 does not hold: a is zero or NaN.
NotPositive(a) == IsNaN(a) \/ a = F(0)

\* C14: an arc on an enabled path one of whose radii is zero or NaN sets
\* the smooth kind to None and makes one call on the coverage rasterizer,
\* a LineTo: AbsArcTo to the raw (x,y), RelArcTo to unabs(pen + rel(x,y)).
DegenerateArcIsRawLine ==
    [][(/\ ~disabled
        /\ op'[1] \in {"AbsArcTo", "RelArcTo"}
        /\ (NotPositive(op'[2]) \/ NotPositive(op'[3]))) =>
          /\ prevSmoothType' = smoothTypeNone
          /\ calls' =
               <<<<"LineTo",
                   IF op'[1] = "AbsArcTo" THEN <<op'[7], op'[8]>>
                   ELSE <<unabsX(relVec2(zz.pen, op'[7], op'[8])[1]),
                          unabsY(relVec2(zz.pen, op'[7], op'[8])[2])>>>>>>]_vars

\* The relative degenerate arc by (10,10) after StartPath at (-10,10) on
\* 128 x 64 pixels, the pen being at (44,42): the line goes to (0,20),
\* the graphic point of the pixel (64,52), and the smooth kind is None
\* after a quadratic curve.
RelDegenerateArcLine ==
    /\ op = <<"RelArcTo">> \o DegenerateArc
    /\ ~disabled
    /\ scaleX = F(2) /\ scaleY = F(1)
    /\ calls = <<<<"LineTo", <<F(0), F(20)>>>>>>
    /\ prevSmoothType = smoothTypeNone
    /\ prevSmoothPoint # ZeroVec2

\* ---------------------------------------------------------------------
\* Two graphics decoded one after the other into the same rasterizer.
\* The second graphic's Reset follows a first graphic that latched the
\* compositing operator.
\* ---------------------------------------------------------------------

LatchRect == Rect(0, 0, 64, 64)

SecondMetadata == [ViewBox |-> ViewBox(0, 0, 64, 64), Palette |-> ScenarioMetadata.Palette]

NextLatch ==
    \/ \E o \in {"Over", "Src"} : SetDstImage("img", LatchRect, o)
    \/ Reset(ScenarioMetadata)
    \/ latchCount = 1 /\ Reset(SecondMetadata)
    \/ StartPath(0, F(0), F(0))
    \/ Drawing /\ ClosePathEndPath

SpecLatch == Init /\ [][NextLatch]_vars

\* C15 (as stated): once an earlier graphic has latched the compositing
\* operator, a StartPath of the graphic decoded after the next Reset does
\* not latch it again.
LatchedOnlyOnceEver == [][(op'[1] = "StartPath" /\ metadata = SecondMetadata) => Latches(calls') = 0]_vars

\* C15 (amended): every Reset arms the latch; the first enabled StartPath
\* after a Reset hands the operator of the most recent SetDstImage to the
\* vector rasterizer, also when an earlier graphic latched already; a
\* later enabled StartPath of the same graphic finds the latch unarmed and
\* leaves the vector rasterizer with its default operator;
\* SetDstImage records the operator without arming or firing the latch.
LatchedOncePerReset ==
    [][/\ (op'[1] = "Reset" => firstStartPath')
       /\ (op'[1] = "SetDstImage" => (drawOp' = op'[4] /\ firstStartPath' = firstStartPath /\ zz' = zz))
       /\ ((op'[1] = "StartPath" /\ ~disabled' /\ firstStartPath)
             => (/\ Latches(calls') = 1
                 /\ zz'.DrawOp = drawOp
                 /\ ~firstStartPath'))
       /\ ((op'[1] = "StartPath" /\ ~disabled' /\ ~firstStartPath)
             => (Latches(calls') = 0 /\ zz'.DrawOp = ZZero.DrawOp))]_vars

\* The second graphic's first StartPath latches again and picks up the
\* operator that SetDstImage changed between the two graphics.
SecondGraphicLatchesAgain ==
    /\ op[1] = "StartPath"
    /\ metadata = SecondMetadata
    /\ latchCount = 1
    /\ drawOp = "Src"
    /\ zz.DrawOp = "Src"
    /\ <<"SetDrawOp", "Src">> \in {calls[i] : i \in DOMAIN calls}

\* ---------------------------------------------------------------------
\* The setters called inside enabled and disabled paths.
\* ---------------------------------------------------------------------

SetRect == Rect(0, 0, 128, 64)

NextSet ==
    \/ SetDstImage("img", SetRect, "Src")
    \/ Reset(ScenarioMetadata)
    \/ SetCSel(63)
    \/ SetNSel(63)
    \/ DirtySlots < MaxWrites /\ SetCReg(0, FALSE, Opaque)
    \/ DirtySlots < MaxWrites /\ SetNReg(0, FALSE, F(1))
    \/ SetLOD(F(100), F(200))
    \/ StartPath(0, F(0), F(0))
    \/ disabled /\ AbsLineTo(SmoothQuad[1], SmoothQuad[2])

SpecSet == Init /\ [][NextSet]_vars

Setters == {"SetCSel", "SetNSel", "SetCReg", "SetNReg", "SetLOD", "SetDstImage", "Reset"}

\* C16: the seven setters act the same on an enabled and on a disabled
\* path: each stores what its arguments say, whatever the disabled flag,
\* and none of them changes the disabled flag, the pen or the current
\* paint; after a Reset inside a disabled path the path commands are still
\* no-ops.
SettersIgnoreDisabled ==
    [][/\ (op'[1] \in Setters
            => (disabled' = disabled /\ zz' = zz /\ paintVars' = paintVars))
       /\ (op'[1] = "SetCSel" => (cSel' = op'[2] % 64 /\ cReg' = cReg))
       /\ (op'[1] = "SetNSel" => (nSel' = op'[2] % 64 /\ nReg' = nReg))
       /\ (op'[1] = "SetCReg"
            => (/\ cReg'[((cSel - op'[2]) % 256) % 64] = Resolve(op'[4], metadata.Palette, cReg)
                /\ \A i \in Slots : i # ((cSel - op'[2]) % 256) % 64 => cReg'[i] = cReg[i]
                /\ cSel' = IF op'[3] THEN (cSel + 1) % 256 ELSE cSel))
       /\ (op'[1] = "SetNReg"
            => (/\ nReg'[((nSel - op'[2]) % 256) % 64] = op'[4]
                /\ \A i \in Slots : i # ((nSel - op'[2]) % 256) % 64 => nReg'[i] = nReg[i]
                /\ nSel' = IF op'[3] THEN (nSel + 1) % 256 ELSE nSel))
       /\ (op'[1] = "SetLOD" => (lod0' = op'[2] /\ lod1' = op'[3]))
       /\ (op'[1] = "SetDstImage"
            => (/\ dst' = op'[2]
                /\ r' = op'[3]
                /\ drawOp' = op'[4]
                /\ scaleX' = FDiv(F(Dx(op'[3])), FSub(metadata.ViewBox.Max[1], metadata.ViewBox.Min[1]))
                /\ scaleY' = FDiv(F(Dy(op'[3])), FSub(metadata.ViewBox.Max[2], metadata.ViewBox.Min[2]))))
       /\ (op'[1] = "Reset"
            => (/\ metadata' = op'[2]
                /\ cReg' = op'[2].Palette
                /\ nReg' = ZeroNReg
                /\ cSel' = 0 /\ nSel' = 0
                /\ lod0' = F(0) /\ lod1' = positiveInfinity
                /\ scaleX' = FDiv(F(Dx(r)), FSub(op'[2].ViewBox.Max[1], op'[2].ViewBox.Min[1]))
                /\ biasX' = FNeg(op'[2].ViewBox.Min[1])))
       /\ ((op'[1] \in PathCommands /\ disabled)
            => (disabled' /\ zz' = zz /\ calls' = <<>>))]_vars

\* Inside a disabled path, with no StartPath since the Reset that cleared
\* the registers, every setter has acted: the selectors, one
\* register of each bank, the level of detail and the transform hold the
\* values set, and the path is still disabled with the pen where it was.
AllSettersActedWhileDisabled ==
    /\ disabled
    /\ freshCycle
    /\ metadata = ScenarioMetadata
    /\ op[1] = "SetDstImage"
    /\ scaleX = F(2)
    /\ cSel = 63 /\ nSel = 63
    /\ cReg[63] = Black
    /\ nReg[63] = F(1)
    /\ lod0 = F(100) /\ lod1 = F(200)
    /\ zz.pen = ZeroVec2

\* ---------------------------------------------------------------------
\* Registers and selectors written between StartPath and
\* ClosePathEndPath.  A path starts from the registers as Reset loaded
\* them, so the paint it resolves is known from the palette; its start
\* point tells which of the two paints it resolved.
\* ---------------------------------------------------------------------

\* Linear, one stop from colour slot 2 and scalar slot 0.
HeldStop == Descriptor(1, 2, 0, 0, 0)

HoldMetadata ==
    [ViewBox |-> ViewBox(-32, -32, 32, 32),
     Palette |-> [i \in Slots |->
                     CASE i = 0 -> Black
                       [] i = 1 -> HeldStop
                       [] i = 2 -> Black
                       [] OTHER -> ZeroColor]]

HoldRect == Rect(0, 0, 128, 64)

\* The solid path starts at (0, 0), the gradient path at (10, 10).
HoldPaths == {<<0, F(0), F(0)>>, <<63, F(10), F(10)>>}

CleanRegisters == DirtySlots = 0 /\ cSel = 0 /\ nSel = 0

\* A StartPath has run since the last Reset.
Started == metadata = HoldMetadata /\ ~freshCycle

NextHold ==
    \/ dst = "nil" /\ SetDstImage("img", HoldRect, "Src")
    \/ dst # "nil" /\ Reset(HoldMetadata)
    \/ \E p \in HoldPaths : CleanRegisters /\ StartPath(p[1], p[2], p[3])
    \/ \E adj \in {0, 62, 63} : Started /\ SetCReg(adj, FALSE, <<"rgba", White>>)
    \/ Started /\ SetNReg(0, FALSE, Rat(1, 2))
    \/ Started /\ SetCSel(1)
    \/ Started /\ SetNSel(1)
    \/ Drawing /\ Started /\ ClosePathEndPath

SpecHold == Init /\ [][NextHold]_vars

\* The paint the path started at pixel `first` resolved from the palette.
HeldPaint(first) ==
    IF first = <<F(64), F(32)>> THEN <<"flat", Black>>
    ELSE <<"gradient", [j \in 0..0 |-> Stop(F(0), Black)]>>

SolidOrStops(p) == IF p[1] = "gradient" THEN <<p[1], p[3]>> ELSE p

\* C17: the paint ClosePathEndPath hands to the draw is the one the most
\* recent StartPath resolved: the solid colour, or the gradient stops, read
\* from the registers as they were at that StartPath, whatever SetCReg,
\* SetNReg, SetCSel and SetNSel wrote in between; and these four leave the
\* stored paint alone.
PaintHeldFromStartPath ==
    [][/\ ((op'[1] = "ClosePathEndPath" /\ ~disabled)
            => \E i \in Draws(calls') :
                  SolidOrStops(calls'[i][4]) = HeldPaint(zz.first))
       /\ (op'[1] \in {"SetCReg", "SetNReg", "SetCSel", "SetNSel"}
            => paintVars' = paintVars)]_vars

\* A gradient path is drawn with the stop it read at StartPath after the
\* descriptor's slot, the stop's colour slot and the stop's offset slot
\* were all overwritten and both selectors moved.
GradientDrawnAfterOverwrite ==
    /\ op[1] = "ClosePathEndPath"
    /\ \E i \in Draws(calls) : SolidOrStops(calls[i][4]) = <<"gradient", [j \in 0..0 |-> Stop(F(0), Black)]>>
    /\ cReg[1] = White
    /\ cReg[2] = White
    /\ nReg[0] = Rat(1, 2)
    /\ cSel = 1 /\ nSel = 1

\* The slot k places from base, counted around the 64 slots of a bank.
WrapSlot(base, k) == (base + k + 64) % 64

\* C18: gradient addressing wraps modulo 64 in both directions.  A
\* gradient that initialises has stop i built from colour slot
\* (cBase + i) mod 64 and scalar slot (nBase + i) mod 64, and its geometry
\* read from the scalar slots 4..1 places below nBase modulo 64, which are
\* slots 60..63 when nBase is 0; every slot read is in 0..63.
GradientSlotsWrap ==
    [][(op'[1] = "StartPath" /\ IsGradientDescriptor(cReg[SlotOf(cSel, op'[2])]) /\ ~disabled')
          => LET c == cReg[SlotOf(cSel, op'[2])]
                 geomX(k) == FMul(scaleX, FAdd(nReg[WrapSlot(NBaseOf(c), -k)], biasX))
                 geomY(k) == FMul(scaleY, FAdd(nReg[WrapSlot(NBaseOf(c), -k)], biasY))
             IN  /\ \A i \in 0..(NStopsOf(c) - 1) :
                       /\ WrapSlot(CBaseOf(c), i) \in Slots
                       /\ WrapSlot(NBaseOf(c), i) \in Slots
                       /\ stops'[i] = Stop(nReg[WrapSlot(NBaseOf(c), i)],
                                           cReg[WrapSlot(CBaseOf(c), i)])
                 /\ \A k \in 1..4 : WrapSlot(NBaseOf(c), -k) \in Slots
                 /\ (NBaseOf(c) = 0
                       => {WrapSlot(NBaseOf(c), -k) : k \in 1..4} = 60..63)
                 /\ gradient'.Geom[1] = geomX(4)
                 /\ gradient'.Geom[2] = geomY(3)
                 /\ (gradient'.Shape = "linear"
                       => (gradient'.Geom[3] = geomX(2) /\ gradient'.Geom[4] = geomY(1)))
                 /\ (gradient'.Shape = "circular"
                       => gradient'.Geom[3] = FMul(scaleX, nReg[WrapSlot(NBaseOf(c), -1)]))]_vars

\* A linear gradient with scalar base 0 has taken its last geometry scalar
\* from slot 63 and not from slot 0, which holds another value.
GeometryReadBelowZero ==
    /\ op = <<"StartPath", 4, F(0), F(0)>>
    /\ ~disabled
    /\ flatColor = NoStops
    /\ nReg[63] = Rat(1, 2)
    /\ nReg[0] = F(2)
    /\ gradient.Geom = <<F(64), F(32), F(64), Rat(65, 2)>>

\* The graphic endpoint AbsArcTo works with: its arguments, or for RelArcTo
\* the graphic point of pen + rel(x,y).
ArcEnd(o, pen) ==
    IF o[1] = "AbsArcTo" THEN <<o[7], o[8]>>
    ELSE <<unabsX(relVec2(pen, o[7], o[8])[1]), unabsY(relVec2(pen, o[7], o[8])[2])>>

Cubes(cs) == {i \in DOMAIN cs : cs[i][1] = "CubeTo"}

\* n = ceil(|dt| * pi / (pi/2 + 0.001)) and n >= 1, for dt in units of pi:
\* (n - 1) * 1.57180 < |dt| * 3.14159 <= n * 1.57180.
CeilOfSweep(dt, n) ==
    /\ IsFin(dt)
    /\ n >= 1
    /\ (n - 1) * 157180 * dt[3] < Abs(dt[2]) * 314159
    /\ Abs(dt[2]) * 314159 <= n * 157180 * dt[3]

\* The pixel of the point of the ellipse of c at angle theta.
ArcPoint(c, theta) ==
    LET ex == FMul(c.Rx, CosPi(theta))
        ey == FMul(c.Ry, SinPi(theta))
    IN  absVec2(FAdd(c.cx, FSub(FMul(c.cosPhi, ex), FMul(c.sinPhi, ey))),
                FAdd(c.cy, FAdd(FMul(c.sinPhi, ex), FMul(c.cosPhi, ey))))

\* The arc of command o goes from the pen to another point with radii
\* that are positive.
WellFormedArc(o, pen) ==
    /\ o[1] \in {"AbsArcTo", "RelArcTo"}
    /\ FLt(F(0), o[2]) /\ FLt(F(0), o[3])
    /\ ArcEnd(o, pen) # <<unabsX(pen[1]), unabsY(pen[2])>>

\* The calls of an arc are n cubics and nothing else, n = ceil(|deltaTheta|
\* / (pi/2 + 0.001)) >= 1, the k-th ending on the ellipse at theta1 +
\* k * deltaTheta / n.
ArcInSegments(o, pen, cs) ==
    LET c == arcCentre(pen, o[2], o[3], o[4], o[5], o[6], ArcEnd(o, pen)[1], ArcEnd(o, pen)[2])
        n == Cardinality(Cubes(cs))
    IN  /\ CeilOfSweep(c.deltaTheta, n)
        /\ Len(cs) = n
        /\ \A k \in 1..n :
               cs[k][4] = ArcPoint(c, FAdd(c.theta1, FDiv(FMul(c.deltaTheta, F(k)), F(n))))
        /\ (FAbs(c.deltaTheta) = Rat(3, 2) /\ c.Rx = c.Ry => n = 3)
        /\ (FAbs(c.deltaTheta) = Rat(1, 2) => n = 1)

open == <<"<", "p", "r", "e", " ", "c", "l", "a", "s", "s", "=", "\"", "e", "b", "n", "f", "\"", ">">>

\* </pre>
close == <<"<", "/", "p", "r", "e", ">">>

\* s[a:b]
Slice(s, a, b) == SubSeq(s, a + 1, b)

\* bytes.Index(s, sep): the index of the first instance of sep in s, or -1.
Index(s, sep) ==
    LET hits == {a \in 0..(Len(s) - Len(sep)) : Slice(s, a, a + Len(sep)) = sep}
    IN  IF hits = {} THEN -1 ELSE CHOOSE a \in hits : \A b \in hits : a <= b

\* The newlines of s, in a row.
RECURSIVE Newlines(_)
Newlines(s) ==
    IF s = <<>> THEN <<>>
    ELSE (IF Head(s) = "\n" THEN <<"\n">> ELSE <<>>) \o Newlines(Tail(s))

\* for src[k] != '>' { k++ }: the k it ends with, or -1 when src[k] is
\* indexed at k = len(src) and the program panics.
RECURSIVE skipTag(_, _)
skipTag(s, k) ==
    IF k >= Len(s) THEN -1
    ELSE IF s[k + 1] = ">" THEN k
    ELSE skipTag(s, k + 1)

\* for k := i; k <= j; k++ { ... }: the buffer after the loop, or a panic
\* when src[k] is indexed at k >= len(src).
RECURSIVE copyText(_, _, _, _)
copyText(s, k, j, buf) ==
    IF k > j THEN [panic |-> FALSE, buf |-> buf]
    ELSE IF k >= Len(s) THEN [panic |-> TRUE, buf |-> buf]
    ELSE IF s[k + 1] = "<"
         THEN (IF skipTag(s, k) < 0 THEN [panic |-> TRUE, buf |-> buf]
               ELSE copyText(s, skipTag(s, k) + 1, j, buf))
    ELSE copyText(s, k + 1, j, Append(buf, s[k + 1]))

\* The for loop of extractEBNF from its top, with src = s and the buffer
\* written so far.
RECURSIVE extractLoop(_, _)
extractLoop(s, buf) ==
    IF Index(s, open) < 0 THEN [panic |-> FALSE, buf |-> buf]
    ELSE LET i == Index(s, open) + Len(open)
             j0 == Index(Slice(s, i, Len(s)), close)
             j == (IF j0 < 0 THEN Len(s) - i ELSE j0) + i
             copied == copyText(s, i, j, buf \o Newlines(Slice(s, 0, i)))
         IN  IF copied.panic THEN copied
             ELSE extractLoop(Slice(s, j, Len(s)), copied.buf)

extractEBNF(s) == extractLoop(s, <<>>)

rasterVars == <<dstVars, xformVars, metadata, lodVars, regVars, disabled, firstStartPath, smoothVars, paintVars, zz, histVars>>

\* verify up to ioutil.ReadAll: the file name and the bytes read.
ReadAll(html, s) ==
    /\ lint.pc = "start"
    /\ lint' = [pc |-> "read", html |-> html, src |-> s]
    /\ op' = <<"ReadAll", html, s>>
    /\ calls' = <<>>
    /\ UNCHANGED rasterVars

\* verify's call of extractEBNF; a panic of extractEBNF ends the program.
Extract ==
    /\ lint.pc = "read"
    /\ IF lint.html \/ Index(lint.src, open) >= 0
       THEN LET e == extractEBNF(lint.src)
            IN  lint' = IF e.panic THEN [lint EXCEPT !.pc = "panic"]
                        ELSE [lint EXCEPT !.pc = "extracted", !.src = e.buf]
       ELSE lint' = [lint EXCEPT !.pc = "extracted"]
    /\ op' = <<"extractEBNF", lint.src>>
    /\ calls' = <<>>
    /\ UNCHANGED rasterVars

\* The inputs: up to MaxPieces pieces, each a marker or one byte.
MaxPieces == 3

Pieces == {open, close, <<"a">>, <<"<">>, <<">">>, <<"\n">>}

RECURSIVE Joined(_)
Joined(n) ==
    IF n = 0 THEN {<<>>}
    ELSE Joined(n - 1) \cup {s \o p : s \in Joined(n - 1), p \in Pieces}

LintInputs == Joined(MaxPieces)

NextLint ==
    \/ \E html \in BOOLEAN, s \in LintInputs : ReadAll(html, s)
    \/ Extract

SpecLint == Init /\ [][NextLint]_vars

\* The text after the first open marker of s, when s has no close marker
\* and the text has no '<'; <<"none">> otherwise.
OpenTextToEnd(s) ==
    IF Index(s, open) < 0 THEN <<"none">>
    ELSE LET text == Slice(s, Index(s, open) + Len(open), Len(s))
         IN  IF Index(text, close) >= 0 \/ \E a \in DOMAIN text : text[a] = "<"
             THEN <<"none">>
             ELSE text

\* C20: extractEBNF returns for every input, never indexing past its end;
\* with an open marker and no close marker after it the EBNF text extends
\* to the end of the source.
ExtractReturns ==
    /\ lint.pc # "panic"
    /\ (lint.pc = "extracted" /\ OpenTextToEnd(op[2]) # <<"none">>)
          => lint.src = Newlines(Slice(op[2], 0, Index(op[2], open) + Len(open))) \o OpenTextToEnd(op[2])

\* extractEBNF has panicked on the open marker followed by one byte of EBNF
\* text and the end of the source.
ExtractPanicsAtEndOfSource ==
    /\ lint.pc = "panic"
    /\ op = <<"extractEBNF", open \o <<"a">>>>

\* What extractEBNF does: it returns iff every open marker it reaches has
\* a close marker after it and every '<' it meets in the text a '>'
\* after it; it panics on every input with an open marker and no close
\* marker.
ExtractPanicsWithoutClose ==
    (lint.pc \in {"extracted", "panic"} /\ Index(op[2], open) >= 0 /\ Index(op[2], close) < 0)
       => lint.pc = "panic"

=============================================================================
